---- MODULE Spec2Model ----
(***************************************************************************)
(* Event registration bot (src/DebugScriptHelper/bot.py): the single       *)
(* event's roster ("teams"), waitlist, slot accounting and the actor-team  *)
(* assignment, as mutated by update_team_size, admin_add_team,             *)
(* process_waitlist_after_change, the close/open commands and the          *)
(* background task check_waitlist_and_expiry.                              *)
(*                                                                         *)
(* The module-level definitions at bot.py:2443-3163 rebind the names       *)
(* defined at bot.py:619-1010, so the later definitions are the ones the   *)
(* command handlers call; they are the ones modelled here.  They work on   *)
(* the bare-integer roster and the 2-tuple waitlist that                   *)
(* create_event_internal and these functions themselves produce.           *)
(*                                                                         *)
(* A coroutine runs without interruption up to an await that performs I/O. *)
(* Where a handler mutates the store, awaits a message delivery and then   *)
(* mutates again (the decrease path of update_team_size, open_command, the *)
(* loop of the background task) the model has one action per segment and   *)
(* keeps the handler's local variables in `pending` / `sweepAvail`.        *)
(***************************************************************************)
EXTENDS Integers, Sequences, FiniteSets, TLC

\* ---------------------------------------------------------------- bounds
\* config.py is not part of src/: the configured capacity and team-size cap
\* are scaled down.
DEFAULT_MAX_SLOTS == 6
DEFAULT_MAX_TEAM_SIZE == 4
\* Largest size a request carries.
MaxSize == 6
\* Longest waitlist explored.
MaxWaitlist == 2
\* Most handlers suspended between their mutation and their promoter call.
MaxPending == 1

\* ---------------------------------------------------------------- values
EXPANDED_MAX_TEAM_SIZE == 2 * DEFAULT_MAX_TEAM_SIZE
UNLIMITED_TEAM_SIZE == 99

TeamNames == {"alpha", "Alpha", "bravo"}
ORGANIZER == "org"
Actors == {"u1", ORGANIZER}
NoUser == "none"
NoTeam == "none"
EventNames == {"cup", "liga"}
NoName == "none"
\* Requests carry even sizes: capacity 6 in steps of 2 has the state space of
\* capacity 3, and the sizes 6, 4 and 2 occur.
Sizes == {n \in 0 .. MaxSize : n % 2 = 0}

\* str.lower() on the names of the model
Lower(name) == IF name = "Alpha" THEN "alpha" ELSE name

VARIABLES
    active,                 \* get_event() is not None
    event_name,             \* event["name"]
    teams,                  \* event["teams"]: insertion-ordered dict name -> size
    waitlist,               \* event["waitlist"]: list of (name, size)
    max_slots,              \* event["max_slots"]
    slots_used,             \* event["slots_used"]
    max_team_size,          \* event["max_team_size"]
    user_team_assignments,  \* dict key -> team name (NoTeam: key absent)
    pending,                \* free_slots of handlers suspended before their promoter call
    sweepPc,                \* check_waitlist_and_expiry: "sleep" or "loop"
    sweepAvail,             \* its local available_slots while in the loop
    last,                   \* the last handler segment that ran, with its arguments and result
    view                    \* the confirmation dialog on screen: what it confirms, has_responded, timed out

\* no confirmation dialog has been shown
NoView == [kind |-> "none", team |-> NoTeam, actor |-> NoUser, is_admin |-> FALSE,
           has_responded |-> FALSE, stopped |-> FALSE, applied |-> 0]

vars == <<active, event_name, teams, waitlist, max_slots, slots_used, max_team_size,
          user_team_assignments, pending, sweepPc, sweepAvail, last, view>>

\* add_team_command stores the assignment under int(discord_id), while every
\* lookup uses str(interaction.user.id): the int key of u1 is a key of its own
IntKey(a) == IF a = "u1" THEN "int(u1)" ELSE "int(org)"
AssignKeys == Actors \cup {IntKey("u1")}

\* ------------------------------------------------------- dict / list helpers
RECURSIVE SumSizes(_)
SumSizes(s) == IF s = <<>> THEN 0 ELSE Head(s).size + SumSizes(Tail(s))

\* index of the first entry whose lowercased name is lname, 0 if none
\* (the `for name in ...: if name.lower() == team_name: ... break` loops)
FirstMatch(s, lname) ==
    IF \E i \in 1 .. Len(s) : Lower(s[i].name) = lname
    THEN CHOOSE i \in 1 .. Len(s) :
            /\ Lower(s[i].name) = lname
            /\ \A j \in 1 .. (i - 1) : Lower(s[j].name) # lname
    ELSE 0

\* index of the entry with exactly this key, 0 if none
KeyIndex(s, key) ==
    IF \E i \in 1 .. Len(s) : s[i].name = key
    THEN CHOOSE i \in 1 .. Len(s) : s[i].name = key
    ELSE 0

RemoveAt(s, i) == SubSeq(s, 1, i - 1) \o SubSeq(s, i + 1, Len(s))

\* d[key] = d.get(key, 0) + n on an insertion-ordered dict
DictAdd(d, key, n) ==
    IF KeyIndex(d, key) = 0
    THEN Append(d, [name |-> key, size |-> n])
    ELSE [d EXCEPT ![KeyIndex(d, key)].size = @ + n]

\* d[key] = n
DictSet(d, key, n) ==
    IF KeyIndex(d, key) = 0
    THEN Append(d, [name |-> key, size |-> n])
    ELSE [d EXCEPT ![KeyIndex(d, key)].size = n]

Matching(s, lname) == SelectSeq(s, LAMBDA e : Lower(e.name) = lname)
NotMatching(s, lname) == SelectSeq(s, LAMBDA e : Lower(e.name) # lname)

\* ------------------------------------------------------ get_team_total_size
\* event_size: size of the first roster entry matching case-insensitively
EventSize(ts, lname) ==
    IF FirstMatch(ts, lname) = 0 THEN 0 ELSE ts[FirstMatch(ts, lname)].size
\* waitlist_size: sum over all waitlist entries matching case-insensitively
WaitlistSize(wl, lname) == SumSizes(Matching(wl, lname))
TotalSize(ts, wl, lname) == EventSize(ts, lname) + WaitlistSize(wl, lname)

\* --------------------------------------------- process_waitlist_after_change
\* The while loop of the promoter on (teams, waitlist, slots_used).
RECURSIVE PromoteLoop(_, _, _, _)
PromoteLoop(ts, wl, su, free) ==
    IF free > 0 /\ wl # <<>>
    THEN LET h == Head(wl) IN
         IF h.size <= free
         THEN PromoteLoop(DictAdd(ts, h.name, h.size), Tail(wl),
                          su + h.size, free - h.size)
         ELSE [teams |-> DictAdd(ts, h.name, free),
               waitlist |-> <<[name |-> h.name, size |-> h.size - free]>> \o Tail(wl),
               slots_used |-> su + free]
    ELSE [teams |-> ts, waitlist |-> wl, slots_used |-> su]

\* Faulty promoters, to show that the properties below tell them apart.
\* One that admits the teams and leaves slots_used as it was:
process_waitlist_keeping_slots_used(ts, wl, su, free) ==
    [teams |-> PromoteLoop(ts, wl, su, free).teams,
     waitlist |-> PromoteLoop(ts, wl, su, free).waitlist,
     slots_used |-> su]

\* one that passes over a head that does not fit and admits the entry behind it:
process_waitlist_first_fit(ts, wl, su, free) ==
    IF free > 0 /\ Len(wl) >= 2 /\ wl[1].size > free /\ wl[2].size <= free
    THEN [teams |-> DictAdd(ts, wl[2].name, wl[2].size),
          waitlist |-> RemoveAt(wl, 2),
          slots_used |-> su + wl[2].size]
    ELSE PromoteLoop(ts, wl, su, free)

\* one that admits whole teams only, as the background pass does:
RECURSIVE process_waitlist_whole_teams(_, _, _, _)
process_waitlist_whole_teams(ts, wl, su, free) ==
    IF free > 0 /\ wl # <<>> /\ Head(wl).size <= free
    THEN process_waitlist_whole_teams(DictAdd(ts, Head(wl).name, Head(wl).size),
                                      Tail(wl), su + Head(wl).size,
                                      free - Head(wl).size)
    ELSE [teams |-> ts, waitlist |-> wl, slots_used |-> su]

\* process_waitlist_after_change(interaction, free_slots) on an existing event
process_waitlist_after_change(ts, wl, su, free) ==
    IF free <= 0 \/ wl = <<>>
    THEN [teams |-> ts, waitlist |-> wl, slots_used |-> su]
    ELSE PromoteLoop(ts, wl, su, free)

\* ------------------------------------------------------------ update_team_size
Unassign(uta, lname) ==
    [k \in AssignKeys |->
        IF uta[k] # NoTeam /\ Lower(uta[k]) = lname THEN NoTeam ELSE uta[k]]

\* new_size == 0: remove the team from roster and waitlist, release its
\* actors, then hand the roster size to the promoter (bot.py:2579-2622)
CancelTeam(ts, wl, su, lname) ==
    LET es  == EventSize(ts, lname)
        ws  == WaitlistSize(wl, lname)
        i   == FirstMatch(ts, lname)
        ts1 == IF es > 0 THEN RemoveAt(ts, i) ELSE ts
        su1 == IF es > 0 THEN su - ts[i].size ELSE su
        wl1 == IF ws > 0 THEN NotMatching(wl, lname) ELSE wl
        p   == IF es > 0
               THEN process_waitlist_after_change(ts1, wl1, su1, es)
               ELSE [teams |-> ts1, waitlist |-> wl1, slots_used |-> su1]
    IN  [teams |-> p.teams, waitlist |-> p.waitlist, slots_used |-> p.slots_used,
         freed |-> IF es > 0 THEN es ELSE 0]

\* A faulty increase that queues the overflow of a team at the head of the
\* waitlist:
IncreaseTeamAtHead(ts, wl, su, ms, lname, diff) ==
    LET available == ms - su
        ri  == FirstMatch(ts, lname)
        toEvent == IF diff <= available THEN diff ELSE available
        toWait  == IF diff <= available THEN 0 ELSE diff - available
        ts1 == IF ri # 0
               THEN [ts EXCEPT ![ri].size = @ + toEvent]
               ELSE DictSet(ts, lname, toEvent)
        wl1 == IF diff <= available THEN wl
               ELSE <<[name |-> lname, size |-> toWait]>> \o wl
    IN  [teams |-> ts1, waitlist |-> wl1, slots_used |-> su + toEvent, freed |-> 0]

\* size_difference > 0 (bot.py:2684-2767)
IncreaseTeam(ts, wl, su, ms, lname, diff) ==
    LET available == ms - su
        ri  == FirstMatch(ts, lname)
        wi  == FirstMatch(wl, lname)
        ws  == WaitlistSize(wl, lname)
        toEvent == IF diff <= available THEN diff ELSE available
        toWait  == IF diff <= available THEN 0 ELSE diff - available
        ts1 == IF ri # 0
               THEN [ts EXCEPT ![ri].size = @ + toEvent]
               ELSE DictSet(ts, lname, toEvent)
        wl1 == IF diff <= available THEN wl
               ELSE IF wi # 0
                    THEN [wl EXCEPT ![wi] = [name |-> wl[wi].name, size |-> ws + toWait]]
                    ELSE Append(wl, [name |-> lname, size |-> toWait])
    IN  [teams |-> ts1, waitlist |-> wl1, slots_used |-> su + toEvent, freed |-> 0]

\* A faulty decrease that drops the roster entry whenever the roster shrinks:
DecreaseTeamDropsEntry(ts, wl, su, lname, reduction) ==
    LET es  == EventSize(ts, lname)
        ws  == WaitlistSize(wl, lname)
        waitlist_reduction == IF ws < reduction THEN ws ELSE reduction
        event_reduction    == reduction - waitlist_reduction
        ri  == FirstMatch(ts, lname)
        shrink == event_reduction > 0 /\ ri # 0
    IN  [teams |-> IF shrink THEN RemoveAt(ts, ri) ELSE ts,
         waitlist |-> IF waitlist_reduction > 0 THEN NotMatching(wl, lname) ELSE wl,
         slots_used |-> IF shrink THEN su - es ELSE su,
         freed |-> event_reduction]

\* size_difference < 0, up to the first await (bot.py:2794-2838);
\* freed is event_reduction, handed to the promoter at bot.py:2883
DecreaseTeam(ts, wl, su, lname, reduction) ==
    LET es  == EventSize(ts, lname)
        ws  == WaitlistSize(wl, lname)
        waitlist_reduction == IF ws < reduction THEN ws ELSE reduction
        event_reduction    == reduction - waitlist_reduction
        ri  == FirstMatch(ts, lname)
        wi  == FirstMatch(wl, lname)
        wl1 == IF waitlist_reduction > 0 /\ wi # 0
               THEN IF ws - waitlist_reduction > 0
                    THEN [wl EXCEPT ![wi] = [name |-> wl[wi].name,
                                             size |-> ws - waitlist_reduction]]
                    ELSE RemoveAt(wl, wi)
               ELSE wl
        shrink == event_reduction > 0 /\ ri # 0
        ts1 == IF shrink
               THEN IF es - event_reduction > 0
                    THEN [ts EXCEPT ![ri].size = es - event_reduction]
                    ELSE RemoveAt(ts, ri)
               ELSE ts
        su1 == IF shrink
               THEN IF es - event_reduction > 0
                    THEN su - event_reduction
                    ELSE su - ts[ri].size
               ELSE su
    IN  [teams |-> ts1, waitlist |-> wl1, slots_used |-> su1, freed |-> event_reduction]

\* update_team_size without the upper size check of bot.py:2548 (faulty variant)
UpdateStatusNoUpperCheck(actor, lname, n, is_admin) ==
    LET user_team == IF user_team_assignments[actor] = NoTeam THEN NoTeam
                     ELSE Lower(user_team_assignments[actor])
        total == TotalSize(teams, waitlist, lname)
    IN  IF ~active THEN "no_event"
        ELSE IF ~is_admin /\ user_team # NoTeam /\ user_team # lname THEN "not_authorized"
        ELSE IF n < 0 THEN "invalid_size"
        ELSE IF n = 0 THEN "cancelled"
        ELSE IF n = total THEN "unchanged"
        ELSE IF n > total THEN "increased"
        ELSE "decreased"

\* the status update_team_size answers with, decided by its early returns
UpdateStatus(actor, lname, n, is_admin) ==
    LET user_team == IF user_team_assignments[actor] = NoTeam THEN NoTeam
                     ELSE Lower(user_team_assignments[actor])
        total == TotalSize(teams, waitlist, lname)
    IN  IF ~active THEN "no_event"
        ELSE IF ~is_admin /\ user_team # NoTeam /\ user_team # lname THEN "not_authorized"
        ELSE IF n < 0 THEN "invalid_size"
        ELSE IF n > max_team_size /\ ~is_admin THEN "invalid_size"
        ELSE IF n = 0 THEN "cancelled"
        ELSE IF n = total THEN "unchanged"
        ELSE IF n > total THEN "increased"
        ELSE "decreased"

\* the store after update_team_size has run up to its first await
UpdateResult(actor, lname, n, is_admin) ==
    LET total == TotalSize(teams, waitlist, lname)
        st    == UpdateStatus(actor, lname, n, is_admin)
        same  == [teams |-> teams, waitlist |-> waitlist,
                  slots_used |-> slots_used, freed |-> 0]
    IN  CASE st = "cancelled" -> CancelTeam(teams, waitlist, slots_used, lname)
          [] st = "increased" -> IncreaseTeam(teams, waitlist, slots_used, max_slots,
                                              lname, n - total)
          [] st = "decreased" -> DecreaseTeam(teams, waitlist, slots_used, lname, total - n)
          [] OTHER -> same

\* update_team_size binding the requester to a new team before its checks
\* (faulty variant)
UpdateAssignmentsBeforeChecks(actor, lname, n, is_admin) ==
    LET total == TotalSize(teams, waitlist, lname)
        st    == UpdateStatus(actor, lname, n, is_admin)
    IN  IF total = 0 /\ n > 0
        THEN [user_team_assignments EXCEPT ![actor] = lname]
        ELSE IF st \in {"no_event", "not_authorized", "invalid_size"}
             THEN user_team_assignments
        ELSE IF n = 0 THEN Unassign(user_team_assignments, lname)
        ELSE user_team_assignments

\* user_team_assignments after update_team_size: a team that did not exist is
\* bound to the requester (bot.py:2568-2572); a cancelled team loses its actors
UpdateAssignments(actor, lname, n, is_admin) ==
    LET total == TotalSize(teams, waitlist, lname)
        st    == UpdateStatus(actor, lname, n, is_admin)
    IN  IF st \in {"no_event", "not_authorized", "invalid_size"} THEN user_team_assignments
        ELSE IF total = 0 /\ n > 0
             THEN [user_team_assignments EXCEPT ![actor] = lname]
        ELSE IF n = 0 THEN Unassign(user_team_assignments, lname)
        ELSE user_team_assignments

\* the answers of a request that got past the early returns; a request that
\* an early return rejects leaves the store as it is
Served == {"cancelled", "unchanged", "increased", "decreased"}

Mk(op, team, n, status, freed) ==
    [op |-> op, team |-> team, n |-> n, status |-> status, freed |-> freed]

UpdateTeamSize(actor, name, n, is_admin) ==
    \E lname \in {Lower(name)} :
    \E st \in {UpdateStatus(actor, lname, n, is_admin)} :
    \E r \in {UpdateResult(actor, lname, n, is_admin)} :
    \* the decrease path awaits the response before it calls the promoter
    \E defer \in {st = "decreased" /\ r.freed > 0} :
        /\ st \in Served
        /\ Len(r.waitlist) <= MaxWaitlist
        /\ defer => Len(pending) < MaxPending
        /\ teams' = r.teams
        /\ waitlist' = r.waitlist
        /\ slots_used' = r.slots_used
        /\ user_team_assignments' = UpdateAssignments(actor, lname, n, is_admin)
        /\ pending' = IF defer THEN Append(pending, r.freed) ELSE pending
        /\ last' = Mk("update", lname, n, st, r.freed)
        /\ UNCHANGED <<active, event_name, max_slots, max_team_size, sweepPc, sweepAvail, view>>

\* the promoter call a suspended handler makes when it resumes
\* (bot.py:2882-2884, bot.py:4211-4213)
ResumePromote(i) ==
    \E free \in {pending[i]} :
    \E p \in {process_waitlist_after_change(teams, waitlist, slots_used, free)} :
        /\ active
        /\ teams' = p.teams
        /\ waitlist' = p.waitlist
        /\ slots_used' = p.slots_used
        /\ pending' = RemoveAt(pending, i)
        \* n records how many members the call admitted
        /\ last' = Mk("promote", NoTeam, p.slots_used - slots_used, "ok", free)
        /\ UNCHANGED <<active, event_name, max_slots, max_team_size, user_team_assignments,
                       sweepPc, sweepAvail, view>>

\* -------------------------------------------------------------- admin_add_team
AdminAddStatus(name, size) ==
    IF ~active THEN "no_event"
    ELSE IF KeyIndex(teams, name) # 0 THEN "duplicate"
    ELSE IF KeyIndex(waitlist, name) # 0 THEN "duplicate"
    ELSE IF size <= 0 \/ size > max_team_size THEN "invalid_size"
    ELSE "added"

\* roster, waitlist and slots_used after admin_add_team (bot.py:3032-3131)
AdminAddResult(ts, wl, su, ms, name, size, force_waitlist) ==
    LET available == ms - su IN
    IF force_waitlist
    THEN [teams |-> ts, waitlist |-> Append(wl, [name |-> name, size |-> size]),
          slots_used |-> su]
    ELSE IF size <= available
    THEN [teams |-> DictSet(ts, name, size), waitlist |-> wl, slots_used |-> su + size]
    ELSE IF available > 0
    THEN [teams |-> DictSet(ts, name, available),
          waitlist |-> Append(wl, [name |-> name, size |-> size - available]),
          slots_used |-> su + available]
    ELSE [teams |-> ts, waitlist |-> Append(wl, [name |-> name, size |-> size]),
          slots_used |-> su]

\* add_team_command keeps the name as typed and passes an int key;
\* AdminTeamCreateModal.on_submit lowercases the name and passes a str key
AdminAddTeam(name, size, key, force_waitlist) ==
    \E st \in {AdminAddStatus(name, size)} :
    \E r \in {IF st = "added"
              THEN AdminAddResult(teams, waitlist, slots_used, max_slots,
                                  name, size, force_waitlist)
              ELSE [teams |-> teams, waitlist |-> waitlist, slots_used |-> slots_used]} :
        /\ st = "added"
        /\ key \in Actors => name = Lower(name)
        /\ Len(r.waitlist) <= MaxWaitlist
        /\ teams' = r.teams
        /\ waitlist' = r.waitlist
        /\ slots_used' = r.slots_used
        /\ user_team_assignments' =
              IF st = "added" /\ key # NoUser
              THEN [user_team_assignments EXCEPT ![key] = name]
              ELSE user_team_assignments
        /\ last' = Mk("admin_add", Lower(name), size, st, 0)
        /\ UNCHANGED <<active, event_name, max_slots, max_team_size, pending, sweepPc, sweepAvail, view>>

\* ------------------------------------------------------ event life cycle
NoAssignments == [k \in AssignKeys |-> NoTeam]

\* create_event_internal (bot.py:3527-3556)
CreateEvent ==
    /\ ~active
    /\ active' = TRUE
    /\ event_name' = "cup"
    /\ teams' = <<>>
    /\ waitlist' = <<>>
    /\ max_slots' = DEFAULT_MAX_SLOTS
    /\ slots_used' = 0
    /\ max_team_size' = DEFAULT_MAX_TEAM_SIZE
    /\ last' = Mk("create", NoTeam, 0, "created", 0)
    /\ UNCHANGED <<user_team_assignments, pending, sweepPc, sweepAvail, view>>

\* event_data.clear(): the store holds no event any more
Cleared ==
    /\ active' = FALSE
    /\ event_name' = NoName
    /\ teams' = <<>>
    /\ waitlist' = <<>>
    /\ max_slots' = 0
    /\ slots_used' = 0
    /\ max_team_size' = 0

\* DeleteConfirmationView.confirm_callback (bot.py:2344-2363); a background
\* pass suspended in its loop keeps working on the dict that was dropped
DeleteEvent ==
    /\ active
    /\ Cleared
    /\ user_team_assignments' = NoAssignments
    /\ sweepPc' = "sleep"
    /\ sweepAvail' = 0
    /\ last' = Mk("delete", NoTeam, 0, "deleted", 0)
    /\ UNCHANGED <<pending, view>>

\* close_command (bot.py:4141-4171)
Close ==
    /\ active
    /\ max_slots' = slots_used
    /\ last' = Mk("close", NoTeam, 0, "closed", 0)
    /\ UNCHANGED <<active, event_name, teams, waitlist, slots_used, max_team_size,
                   user_team_assignments, pending, sweepPc, sweepAvail, view>>

\* open_command up to its first await (bot.py:4174-4194); the promoter call
\* of bot.py:4211-4213 runs when the handler resumes
Open ==
    LET new_available_slots == DEFAULT_MAX_SLOTS - slots_used IN
    /\ active
    /\ new_available_slots > 0 => Len(pending) < MaxPending
    /\ max_slots' = DEFAULT_MAX_SLOTS
    /\ pending' = IF new_available_slots > 0
                  THEN Append(pending, new_available_slots) ELSE pending
    /\ last' = Mk("open", NoTeam, 0, "opened", new_available_slots)
    /\ UNCHANGED <<active, event_name, teams, waitlist, slots_used, max_team_size,
                   user_team_assignments, sweepPc, sweepAvail, view>>

\* open_registration (bot.py:3709-3751)
OpenRegistration ==
    /\ active
    /\ max_team_size' =
          IF max_team_size = DEFAULT_MAX_TEAM_SIZE THEN EXPANDED_MAX_TEAM_SIZE
          ELSE IF max_team_size = EXPANDED_MAX_TEAM_SIZE THEN UNLIMITED_TEAM_SIZE
          ELSE max_team_size
    /\ last' = Mk("open_reg", NoTeam, 0,
                  IF max_team_size \in {DEFAULT_MAX_TEAM_SIZE, EXPANDED_MAX_TEAM_SIZE}
                  THEN "raised" ELSE "unlimited", 0)
    /\ UNCHANGED <<active, event_name, teams, waitlist, max_slots, slots_used,
                   user_team_assignments, pending, sweepPc, sweepAvail, view>>

\* ------------------------------------------------- check_waitlist_and_expiry
\* datetime.now() > event["expiry_date"] (bot.py:3352-3373)
SweepExpire ==
    /\ sweepPc = "sleep"
    /\ active
    /\ Cleared
    /\ last' = Mk("expire", NoTeam, 0, "expired", 0)
    /\ UNCHANGED <<user_team_assignments, pending, sweepPc, sweepAvail, view>>

\* one iteration of the while loop at bot.py:3380-3404 with the local
\* available_slots = avail; fits = FALSE is the `else: break`
SweepIteration(ts, wl, su, avail) ==
    IF avail > 0 /\ wl # <<>> /\ Head(wl).size <= avail
    THEN [fits |-> TRUE, teams |-> DictAdd(ts, Head(wl).name, Head(wl).size),
          waitlist |-> Tail(wl), slots_used |-> su + Head(wl).size,
          avail |-> avail - Head(wl).size]
    ELSE [fits |-> FALSE, teams |-> ts, waitlist |-> wl, slots_used |-> su,
          avail |-> avail]

\* a pass that finds free slots and a waitlist runs its first iteration
SweepBegin ==
    \E it \in {SweepIteration(teams, waitlist, slots_used, max_slots - slots_used)} :
    /\ sweepPc = "sleep"
    /\ active
    /\ slots_used < max_slots /\ waitlist # <<>>
    /\ it.fits
    /\ teams' = it.teams
    /\ waitlist' = it.waitlist
    /\ slots_used' = it.slots_used
    /\ sweepPc' = "loop"
    /\ sweepAvail' = it.avail
    /\ last' = Mk("sweep", Lower(Head(waitlist).name), Head(waitlist).size, "promoted", 0)
    /\ UNCHANGED <<active, event_name, max_slots, max_team_size, user_team_assignments, pending, view>>

\* the pass resumes after notifying the promoted team
SweepStep ==
    \E it \in {SweepIteration(teams, waitlist, slots_used, sweepAvail)} :
    /\ sweepPc = "loop"
    /\ teams' = it.teams
    /\ waitlist' = it.waitlist
    /\ slots_used' = it.slots_used
    /\ sweepPc' = IF it.fits THEN "loop" ELSE "sleep"
    /\ sweepAvail' = IF it.fits THEN it.avail ELSE 0
    /\ last' = IF it.fits
               THEN Mk("sweep", Lower(Head(waitlist).name), Head(waitlist).size, "promoted", 0)
               ELSE Mk("sweep", NoTeam, 0, "done", 0)
    /\ UNCHANGED <<active, event_name, max_slots, max_team_size, user_team_assignments, pending, view>>

\* ---------------------------------------------- handlers run to completion
\* update_team_size when no other task is scheduled at its awaits: the
\* decrease path calls the promoter with event_reduction right away
UpdateTeamSizeRun(actor, name, n, is_admin) ==
    \E lname \in {Lower(name)} :
    \E st \in {UpdateStatus(actor, lname, n, is_admin)} :
    \E r \in {UpdateResult(actor, lname, n, is_admin)} :
    \E p \in {IF st = "decreased" /\ r.freed > 0
              THEN process_waitlist_after_change(r.teams, r.waitlist,
                                                 r.slots_used, r.freed)
              ELSE [teams |-> r.teams, waitlist |-> r.waitlist,
                    slots_used |-> r.slots_used]} :
        /\ st \in Served
        /\ Len(r.waitlist) <= MaxWaitlist
        /\ teams' = p.teams
        /\ waitlist' = p.waitlist
        /\ slots_used' = p.slots_used
        /\ user_team_assignments' = UpdateAssignments(actor, lname, n, is_admin)
        /\ last' = Mk("update", lname, n, st, r.freed)
        /\ UNCHANGED <<active, event_name, max_slots, max_team_size, pending, sweepPc, sweepAvail, view>>

\* open_command when no other task is scheduled at its awaits
OpenRun ==
    \E new_available_slots \in {DEFAULT_MAX_SLOTS - slots_used} :
    \E p \in {process_waitlist_after_change(teams, waitlist, slots_used,
                                            new_available_slots)} :
        /\ active
        /\ max_slots' = DEFAULT_MAX_SLOTS
        /\ teams' = p.teams
        /\ waitlist' = p.waitlist
        /\ slots_used' = p.slots_used
        /\ last' = Mk("open", NoTeam, 0, "opened", new_available_slots)
        /\ UNCHANGED <<active, event_name, max_team_size, user_team_assignments,
                       pending, sweepPc, sweepAvail, view>>

\* the whole while loop of one background pass
RECURSIVE SweepLoop(_, _, _, _)
SweepLoop(ts, wl, su, avail) ==
    LET it == SweepIteration(ts, wl, su, avail) IN
    IF it.fits THEN SweepLoop(it.teams, it.waitlist, it.slots_used, it.avail)
    ELSE it

\* a background pass when no other task is scheduled at its awaits
SweepRun ==
    \E r \in {SweepLoop(teams, waitlist, slots_used, max_slots - slots_used)} :
    /\ sweepPc = "sleep"
    /\ active
    /\ slots_used < max_slots /\ waitlist # <<>>
    /\ teams' = r.teams
    /\ waitlist' = r.waitlist
    /\ slots_used' = r.slots_used
    /\ last' = Mk("sweep", NoTeam, 0, IF r.waitlist # waitlist THEN "promoted" ELSE "done", 0)
    /\ UNCHANGED <<active, event_name, max_slots, max_team_size, user_team_assignments,
                   pending, sweepPc, sweepAvail, view>>

\* ---------------------------------------------------------------- behaviour
Init ==
    /\ active = FALSE
    /\ event_name = NoName
    /\ teams = <<>>
    /\ waitlist = <<>>
    /\ max_slots = 0
    /\ slots_used = 0
    /\ max_team_size = 0
    /\ user_team_assignments = NoAssignments
    /\ pending = <<>>
    /\ sweepPc = "sleep"
    /\ sweepAvail = 0
    /\ last = Mk("init", NoTeam, 0, "ok", 0)
    /\ view = NoView

\* Requests served one after the other: every handler completes before the
\* next one starts.  The organizer edits and adds teams.
Next ==
    \/ CreateEvent
    \/ DeleteEvent
    \/ \E a \in Actors, t \in {"alpha", "bravo"}, n \in Sizes :
          UpdateTeamSizeRun(a, t, n, a = ORGANIZER)
    \/ \E t \in TeamNames, n \in Sizes, k \in {NoUser, "u1"}, f \in BOOLEAN :
          AdminAddTeam(t, n, k, f)
    \/ Close
    \/ OpenRun
    \/ SweepExpire
    \/ SweepRun

Spec == Init /\ [][Next]_vars

\* Handlers as the event loop schedules them: a handler that awaits a
\* delivery between two mutations is two steps, and other handlers may run
\* in between.  A store that is overbooked is not explored further.
Overbooked == slots_used > max_slots \/ slots_used < 0

NextAsync ==
    \/ ~Overbooked /\ CreateEvent
    \/ \E t \in {"alpha", "bravo"}, n \in Sizes :
          ~Overbooked /\ UpdateTeamSize(ORGANIZER, t, n, TRUE)
    \/ \E i \in 1 .. Len(pending) : ~Overbooked /\ ResumePromote(i)
    \/ ~Overbooked /\ Close
    \/ ~Overbooked /\ Open
    \/ ~Overbooked /\ SweepBegin
    \/ ~Overbooked /\ SweepStep

SpecAsync == Init /\ [][NextAsync]_vars

TypeOK ==
    /\ active \in BOOLEAN
    /\ event_name \in EventNames \cup {NoName}
    /\ \A i \in 1 .. Len(teams) : teams[i].name \in TeamNames /\ teams[i].size \in Int
    /\ \A i \in 1 .. Len(waitlist) : waitlist[i].name \in TeamNames
    /\ Len(waitlist) <= MaxWaitlist
    /\ Len(pending) <= MaxPending
    /\ sweepPc \in {"sleep", "loop"}
    /\ view.kind \in {"none", "unregister", "delete"}
    /\ view.has_responded \in BOOLEAN /\ view.stopped \in BOOLEAN
    /\ \A k \in AssignKeys : user_team_assignments[k] \in TeamNames \cup {NoTeam}

\* ------------------------------------------------------------------ claims
Min(a, b) == IF a <= b THEN a ELSE b

\* The stored part of the state: the event and the actor assignments.
store == <<active, teams, waitlist, max_slots, slots_used, max_team_size,
           user_team_assignments>>

\* size of the roster entry / the waitlist entries with exactly this key
KeySize(s, key) == SumSizes(SelectSeq(s, LAMBDA e : e.name = key))

\* C1: in every reachable state of an active event, slots_used equals the sum
\* of the sizes of all roster entries.
C1_SlotsUsedIsRosterSum == active => slots_used = SumSizes(teams)

\* a decrease whose freed slots the promoter has filled again, two teams listed
C1_Witness ==
    /\ active /\ last.op = "update" /\ last.status = "decreased" /\ last.freed > 0
    /\ Len(teams) >= 2 /\ slots_used = max_slots /\ slots_used > 0

\* C2: in every reachable state of an active event 0 <= slots_used <= max_slots;
\* no promoter invocation raises slots_used above max_slots.
C2_SlotsWithinCapacity == active => (0 <= slots_used /\ slots_used <= max_slots)

\* C3: in every reachable state no roster entry and no waitlist entry has
\* size <= 0, also after a new team registers while no capacity is available.
C3_EntriesPositive ==
    /\ \A i \in 1 .. Len(teams) : teams[i].size > 0
    /\ \A i \in 1 .. Len(waitlist) : waitlist[i].size > 0

\* C4: after a successful set_team_size(T, N) with N > 0 the total size of T
\* (roster size plus all waitlist entries matching T case-insensitively) is N.
C4_TotalIsRequested ==
    (last.op = "update" /\ last.status \in Served /\ last.n > 0)
        => TotalSize(teams, waitlist, last.team) = last.n

\* C5: an increase of T by delta with available = max_slots - slots_used adds
\* min(delta, available) to T's roster entry and to slots_used, and
\* delta - min(delta, available) to the waitlist for T.
C5_IncreaseSplit ==
    [][(last'.op = "update" /\ last'.status = "increased") =>
        LET T == last'.team
            delta == last'.n - TotalSize(teams, waitlist, T)
            to_roster == Min(delta, max_slots - slots_used)
        IN  /\ EventSize(teams', T) - EventSize(teams, T) = to_roster
            /\ slots_used' - slots_used = to_roster
            /\ WaitlistSize(waitlist', T) - WaitlistSize(waitlist, T) = delta - to_roster
      ]_vars

\* C6: the promoter is strictly FIFO: it removes a prefix of the waitlist, then
\* at most shrinks the entry that follows, leaves every entry behind that as it
\* was and credits each roster key exactly what left the waitlist under that
\* key; a head larger than freed is decremented in place by freed.
C6_PromoterFifo ==
    [][last'.op = "promote" =>
        /\ \E k \in 0 .. Len(waitlist) :
              /\ Len(waitlist') = Len(waitlist) - k
              /\ \A j \in 2 .. Len(waitlist') : waitlist'[j] = waitlist[k + j]
              /\ Len(waitlist') > 0 =>
                    /\ waitlist'[1].name = waitlist[k + 1].name
                    /\ waitlist'[1].size <= waitlist[k + 1].size
                    /\ waitlist'[1].size > 0
        /\ \A t \in TeamNames :
              KeySize(teams', t) - KeySize(teams, t)
                  = KeySize(waitlist, t) - KeySize(waitlist', t)
        /\ (waitlist # <<>> /\ Head(waitlist).size > last'.freed) =>
              waitlist' = <<[name |-> Head(waitlist).name,
                             size |-> Head(waitlist).size - last'.freed]>>
                          \o Tail(waitlist)
      ]_vars

\* the promoter has shrunk the head in place, another team waits behind it
C6_Witness ==
    /\ last.op = "promote" /\ last.n > 0 /\ last.n = last.freed
    /\ Len(waitlist) = 2 /\ waitlist[1].name # waitlist[2].name
    /\ slots_used <= max_slots

\* C7: promote(freed) moves exactly min(freed, total waitlist size) members
\* from the waitlist into the roster and adds as much to slots_used; a
\* waitlist that fits as a whole ends empty.
C7_PromoterMovesMin ==
    [][last'.op = "promote" =>
        LET moved == Min(last'.freed, SumSizes(waitlist)) IN
        /\ SumSizes(waitlist') = SumSizes(waitlist) - moved
        /\ SumSizes(teams') = SumSizes(teams) + moved
        /\ slots_used' = slots_used + moved
        /\ SumSizes(waitlist) <= last'.freed => waitlist' = <<>>
      ]_vars

\* the promoter has admitted a whole waitlist and left freed slots unused
C7_Witness ==
    /\ last.op = "promote" /\ last.n > 0 /\ last.n < last.freed
    /\ waitlist = <<>>
    /\ slots_used <= max_slots

\* C8: set_team_size(T, N) with N equal to T's current total size, 0 included,
\* mutates nothing and reports an unchanged status.
C8_SameSizeIsNoOp ==
    [][(last'.op = "update" /\ last'.n = TotalSize(teams, waitlist, last'.team)) =>
        /\ UNCHANGED store
        /\ last'.status = "unchanged"
      ]_vars

\* C9: set_team_size(T, 0) on a team present in roster and/or waitlist leaves
\* no roster entry and no waitlist entry matching T, no actor assigned to T,
\* and hands the promoter T's previous roster size.
C9_CancelRemovesTeam ==
    [][(/\ last'.op = "update" /\ last'.n = 0
        /\ \/ FirstMatch(teams, last'.team) # 0
           \/ FirstMatch(waitlist, last'.team) # 0) =>
        LET T == last'.team IN
        /\ FirstMatch(teams', T) = 0
        /\ FirstMatch(waitlist', T) = 0
        /\ \A k \in AssignKeys :
              user_team_assignments'[k] = NoTeam \/ Lower(user_team_assignments'[k]) # T
        /\ last'.freed = EventSize(teams, T)
      ]_vars

\* set_team_size("bravo", 2) for a team with roster size 6 and waitlist size 0
C10_Case ==
    /\ last'.op = "update" /\ last'.team = "bravo" /\ last'.n = 2
    /\ EventSize(teams, "bravo") = 6
    /\ WaitlistSize(waitlist, "bravo") = 0

\* C10 as stated: event_reduction is 4, the roster entry is removed,
\* slots_used drops by 6 and the promoter is handed freed = 4.
C10_AsStated ==
    [][C10_Case =>
        /\ last'.freed = 4
        /\ FirstMatch(teams', "bravo") = 0
        /\ slots_used' = slots_used - 6
        /\ pending' = Append(pending, 4)
      ]_vars

\* C10: event_reduction is 4, the roster entry stays with size 2, slots_used
\* drops by 4, the waitlist is untouched and the promoter is handed freed = 4.
C10_DecreaseKeepsRemainder ==
    [][C10_Case =>
        /\ last'.freed = 4
        /\ EventSize(teams', "bravo") = 2
        /\ slots_used' = slots_used - 4
        /\ waitlist' = waitlist
        /\ pending' = Append(pending, 4)
      ]_vars

\* bravo went from 6 to 2 and the promoter call with 4 freed slots is due
C10_Witness ==
    /\ last.op = "update" /\ last.team = "bravo" /\ last.n = 2
    /\ last.status = "decreased" /\ last.freed = 4
    /\ EventSize(teams, "bravo") = 2 /\ WaitlistSize(waitlist, "bravo") = 0
    /\ pending = <<4>>

\* ------------------------------------------------ requests and their answers
\* The commands as a requester issues them, each run to completion, with the
\* answer recorded also when an early return rejects the request.
Errors == {"no_event", "invalid_size", "not_authorized", "already_assigned",
           "team_not_found", "duplicate_event", "duplicate"}

MkReq(op, actor, admin, team, n, status, freed, saves) ==
    [op |-> op, actor |-> actor, admin |-> admin, team |-> team, n |-> n,
     status |-> status, freed |-> freed, saves |-> saves]

\* One size below 0 besides the sizes of the other requests.
RequestSizes == Sizes \cup {0 - 2}

\* the checks of register_team (bot.py:3662-3691) and of
\* TeamRegistrationModal.on_submit (bot.py:1052-1068) before update_team_size
\* is called; "pass" hands the request to update_team_size
RegPrecheck(actor, name, n, modal) ==
    IF ~active THEN "no_event"
    ELSE IF ~modal /\ (n < 0 \/ n > max_team_size) THEN "invalid_size"
    ELSE IF /\ user_team_assignments[actor] # NoTeam
            /\ Lower(user_team_assignments[actor]) # Lower(name)
         THEN "already_assigned"
    ELSE IF /\ ~modal /\ n = 0
            /\ FirstMatch(teams, Lower(name)) = 0
            /\ FirstMatch(waitlist, Lower(name)) = 0
         THEN "team_not_found"
    ELSE "pass"

\* save_data calls of update_team_size and of the promoter it awaits:
\* bot.py:2619 (cancel), bot.py:2887 (increase, decrease), bot.py:2933
\* (promoter, when it admitted somebody); the unchanged branch returns before
SavesOfUpdate(st, promoted) ==
    (IF st \in {"cancelled", "increased", "decreased"} THEN 1 ELSE 0)
    + (IF promoted THEN 1 ELSE 0)

\* update_needed of the promoter that a cancellation or a decrease awaited:
\* slots_used ended above what the request itself took away
Promoted(st, su_after, freed) ==
    st \in {"cancelled", "decreased"} /\ su_after # slots_used - freed

\* /reg (modal = FALSE; size 0 goes through the confirmation dialog to
\* update_team_size(team, 0)) and the registration modal (modal = TRUE)
RegisterTeam(actor, name, n, modal) ==
    \E lname \in {Lower(name)} :
    \E pre \in {RegPrecheck(actor, name, n, modal)} :
    \E st \in {IF pre = "pass" THEN UpdateStatus(actor, lname, n, FALSE) ELSE pre} :
    \E r \in {IF pre = "pass" THEN UpdateResult(actor, lname, n, FALSE)
              ELSE [teams |-> teams, waitlist |-> waitlist,
                    slots_used |-> slots_used, freed |-> 0]} :
    \E p \in {IF st = "decreased" /\ r.freed > 0
              THEN process_waitlist_after_change(r.teams, r.waitlist,
                                                 r.slots_used, r.freed)
              ELSE [teams |-> r.teams, waitlist |-> r.waitlist,
                    slots_used |-> r.slots_used]} :
    \* register_team saves once more when update_team_size returned True
    \E saves \in {SavesOfUpdate(st, Promoted(st, p.slots_used, r.freed))
                  + (IF ~modal /\ n > 0 /\ st \in Served THEN 1 ELSE 0)} :
        /\ Len(r.waitlist) <= MaxWaitlist
        /\ teams' = p.teams
        /\ waitlist' = p.waitlist
        /\ slots_used' = p.slots_used
        /\ user_team_assignments' =
              IF pre = "pass" THEN UpdateAssignments(actor, lname, n, FALSE)
              ELSE user_team_assignments
        /\ last' = MkReq(IF modal THEN "modal" ELSE "reg", actor, FALSE,
                         lname, n, st, r.freed, saves)
        /\ UNCHANGED <<active, event_name, max_slots, max_team_size, pending,
                       sweepPc, sweepAvail, view>>

\* admin_team_edit_command (bot.py:4499-4518): update_team_size with is_admin
AdminTeamEdit(name, n) ==
    \E lname \in {Lower(name)} :
    \E st \in {UpdateStatus(ORGANIZER, lname, n, TRUE)} :
    \E r \in {UpdateResult(ORGANIZER, lname, n, TRUE)} :
    \E p \in {IF st = "decreased" /\ r.freed > 0
              THEN process_waitlist_after_change(r.teams, r.waitlist,
                                                 r.slots_used, r.freed)
              ELSE [teams |-> r.teams, waitlist |-> r.waitlist,
                    slots_used |-> r.slots_used]} :
        /\ Len(r.waitlist) <= MaxWaitlist
        /\ teams' = p.teams
        /\ waitlist' = p.waitlist
        /\ slots_used' = p.slots_used
        /\ user_team_assignments' = UpdateAssignments(ORGANIZER, lname, n, TRUE)
        /\ last' = MkReq("admin_edit", ORGANIZER, TRUE, lname, n, st, r.freed,
                         SavesOfUpdate(st, Promoted(st, p.slots_used, r.freed)))
        /\ UNCHANGED <<active, event_name, max_slots, max_team_size, pending,
                       sweepPc, sweepAvail, view>>

\* admin_add_team with its rejections; key NoUser: no representative given,
\* IntKey("u1"): /admin_add_team with u1's discord_id (bot.py:4459-4470),
\* "u1": AdminTeamCreateModal, which lowercases the name and passes str(user.id)
AdminAddRequest(name, size, key, force_waitlist) ==
    \E st \in {AdminAddStatus(name, size)} :
    \E r \in {IF st = "added"
              THEN AdminAddResult(teams, waitlist, slots_used, max_slots,
                                  name, size, force_waitlist)
              ELSE [teams |-> teams, waitlist |-> waitlist, slots_used |-> slots_used]} :
        /\ key \in Actors => name = Lower(name)
        /\ Len(r.waitlist) <= MaxWaitlist
        /\ teams' = r.teams
        /\ waitlist' = r.waitlist
        /\ slots_used' = r.slots_used
        /\ user_team_assignments' =
              IF st = "added" /\ key # NoUser
              THEN [user_team_assignments EXCEPT ![key] = name]
              ELSE user_team_assignments
        /\ last' = MkReq("admin_add", ORGANIZER, TRUE, Lower(name), size, st, 0,
                         IF st = "added" THEN 1 ELSE 0)
        /\ UNCHANGED <<active, event_name, max_slots, max_team_size, pending,
                       sweepPc, sweepAvail, view>>

\* create_event_internal without the check for an existing event (faulty variant)
CreateStatusUnchecked == "created"

\* create_event_internal: `if get_event(): ... return` (bot.py:3532-3534)
CreateStatus == IF active THEN "duplicate_event" ELSE "created"

CreateEventRequest(nm) ==
    \E st \in {CreateStatus} :
        /\ active' = TRUE
        /\ event_name' = IF st = "created" THEN nm ELSE event_name
        /\ teams' = IF st = "created" THEN <<>> ELSE teams
        /\ waitlist' = IF st = "created" THEN <<>> ELSE waitlist
        /\ max_slots' = IF st = "created" THEN DEFAULT_MAX_SLOTS ELSE max_slots
        /\ slots_used' = IF st = "created" THEN 0 ELSE slots_used
        /\ max_team_size' = IF st = "created" THEN DEFAULT_MAX_TEAM_SIZE
                            ELSE max_team_size
        \* the requested event name is recorded in the team field
        /\ last' = MkReq("create", ORGANIZER, TRUE, nm, 0, st, 0,
                         IF st = "created" THEN 1 ELSE 0)
        /\ UNCHANGED <<user_team_assignments, pending, sweepPc, sweepAvail, view>>

\* the answer of /unregister <team>: own team or organizer role
\* (bot.py:4054-4063), then handle_team_unregistration (bot.py:312-373)
UnregisterPrecheck(actor, name, is_admin) ==
    IF ~active THEN "no_event"
    ELSE IF ~is_admin /\ (\/ user_team_assignments[actor] = NoTeam
                          \/ Lower(user_team_assignments[actor]) # Lower(name))
         THEN "not_authorized"
    ELSE IF FirstMatch(teams, Lower(name)) = 0 /\ FirstMatch(waitlist, Lower(name)) = 0
         THEN "team_not_found"
    ELSE "pass"

\* unregister_command, confirmed in the dialog: update_team_size(team, 0)
Unregister(actor, name) ==
    \E is_admin \in {actor = ORGANIZER} :
    \E lname \in {Lower(name)} :
    \E pre \in {UnregisterPrecheck(actor, name, is_admin)} :
    \E st \in {IF pre = "pass" THEN UpdateStatus(actor, lname, 0, is_admin) ELSE pre} :
    \E r \in {IF pre = "pass" THEN UpdateResult(actor, lname, 0, is_admin)
              ELSE [teams |-> teams, waitlist |-> waitlist,
                    slots_used |-> slots_used, freed |-> 0]} :
        /\ teams' = r.teams
        /\ waitlist' = r.waitlist
        /\ slots_used' = r.slots_used
        /\ user_team_assignments' =
              IF pre = "pass" THEN UpdateAssignments(actor, lname, 0, is_admin)
              ELSE user_team_assignments
        /\ last' = MkReq("unregister", actor, is_admin, lname, 0, st, r.freed,
                         SavesOfUpdate(st, Promoted(st, r.slots_used, r.freed)))
        /\ UNCHANGED <<active, event_name, max_slots, max_team_size, pending,
                       sweepPc, sweepAvail, view>>

NextRequests ==
    \/ \E nm \in EventNames : CreateEventRequest(nm)
    \/ DeleteEvent
    \/ SweepExpire
    \/ \E a \in Actors, t \in {"alpha", "bravo"}, n \in RequestSizes, m \in BOOLEAN :
          RegisterTeam(a, t, n, m)
    \/ \E a \in Actors, t \in {"alpha", "bravo"} : Unregister(a, t)
    \/ \E t \in {"alpha", "bravo"}, n \in RequestSizes : AdminTeamEdit(t, n)
    \/ \E t \in {"alpha", "bravo"}, n \in Sizes, k \in {NoUser, IntKey("u1")} :
          AdminAddRequest(t, n, k, FALSE)

SpecRequests == Init /\ [][NextRequests]_vars

\* ---------------------------------------------------------------- claims C11-C20

\* the step is a request of a requester without the organizer's rights
NonPrivilegedStep ==
    last'.op \in {"reg", "modal", "unregister"} /\ last'.admin = FALSE

\* before the step the requester is not assigned to the team of the request
NotAssignedToIt ==
    \/ user_team_assignments[last'.actor] = NoTeam
    \/ Lower(user_team_assignments[last'.actor]) # last'.team

\* C11: a non-privileged requester who changes or cancels an existing team
\* they are not assigned to (a requester assigned to no team included) is
\* rejected and nothing changes.
C11_OthersTeamRejected ==
    [][(/\ NonPrivilegedStep
        /\ active
        /\ last'.n >= 0
        /\ TotalSize(teams, waitlist, last'.team) > 0
        /\ NotAssignedToIt)
       => (last'.status \in Errors /\ store' = store)]_vars

\* the same for requesters who are assigned to another team: these the code
\* does reject
C11_AssignedElsewhereRejected ==
    [][(/\ NonPrivilegedStep
        /\ active
        /\ last'.n >= 0
        /\ TotalSize(teams, waitlist, last'.team) > 0
        /\ user_team_assignments[last'.actor] # NoTeam
        /\ Lower(user_team_assignments[last'.actor]) # last'.team)
       => (last'.status \in {"not_authorized", "already_assigned", "invalid_size"}
           /\ store' = store)]_vars

\* the step is a registration: /reg or the registration modal
RegistrationStep == last'.op \in {"reg", "modal"}

\* the teams the mapping holds for an actor, under the key the handlers look
\* up (str) and under the key /admin_add_team writes (int)
AssignedTeamsOf(a) ==
    {user_team_assignments[k] : k \in {a, IntKey(a)} \cap AssignKeys} \ {NoTeam}

\* C12: a non-privileged requester assigned to team X who submits a
\* registration (of a size the handler accepts) for a name that differs from X
\* case-insensitively is rejected (the claim: with AlreadyAssigned; here any
\* rejection counts); roster, waitlist, slots_used and the assignments stay as
\* they are.
C12_AlreadyAssignedRejected ==
    [][(/\ RegistrationStep
        /\ active
        /\ last'.n >= 0 /\ last'.n <= max_team_size
        /\ \E x \in AssignedTeamsOf(last'.actor) : Lower(x) # last'.team)
       => (/\ last'.status \in Errors
           /\ UNCHANGED <<teams, waitlist, slots_used, user_team_assignments>>)]_vars

\* the same for an assignment the requester's own registration wrote (str key)
C12_OwnRegistrationRejected ==
    [][(/\ RegistrationStep
        /\ active
        /\ last'.n >= 0 /\ last'.n <= max_team_size
        /\ user_team_assignments[last'.actor] # NoTeam
        /\ Lower(user_team_assignments[last'.actor]) # last'.team)
       => (/\ last'.status = "already_assigned"
           /\ UNCHANGED <<teams, waitlist, slots_used, user_team_assignments>>)]_vars

\* the step is a set_team_size request: /reg, the registration modal or the
\* organizer's /admin_team_edit
SetTeamSizeStep == last'.op \in {"reg", "modal", "admin_edit"}

\* before the step the requester is assigned to another team than the one
\* of the request
AssignedElsewhere ==
    /\ user_team_assignments[last'.actor] # NoTeam
    /\ Lower(user_team_assignments[last'.actor]) # last'.team

C14_ErrorsChangeNothing ==
    [][last'.status \in Errors
       => UNCHANGED <<active, teams, waitlist, slots_used, max_slots,
                      max_team_size, user_team_assignments>>]_vars

\* a request was rejected while roster and waitlist hold teams
C14_Witness ==
    /\ last.status \in Errors \ {"no_event"}
    /\ Len(teams) > 0
    /\ Len(waitlist) > 0
    /\ \E k \in AssignKeys : user_team_assignments[k] # NoTeam

\* the actor a key of the mapping stands for
ActorOfKey(k) == IF k = IntKey("u1") THEN "u1" ELSE k

\* C15: in every reachable state each team name (compared case-insensitively)
\* is the assignment of at most one actor, whatever registrations, admin-adds
\* with an actor, cancellations, expiry, deletion and re-creation came before.
C15_OneActorPerTeam ==
    \A k1 \in AssignKeys, k2 \in AssignKeys :
        (/\ user_team_assignments[k1] # NoTeam
         /\ user_team_assignments[k2] # NoTeam
         /\ Lower(user_team_assignments[k1]) = Lower(user_team_assignments[k2]))
        => ActorOfKey(k1) = ActorOfKey(k2)

\* the same while no event has expired and names differ in more than case
C15_NoExpiryNoCaseTwins ==
    [][(/\ C15_OneActorPerTeam
        /\ last'.op # "expire"
        /\ \A i \in 1 .. Len(teams') : teams'[i].name = Lower(teams'[i].name)
        /\ \A i \in 1 .. Len(waitlist') : waitlist'[i].name = Lower(waitlist'[i].name)
        /\ \A k \in AssignKeys : user_team_assignments[k] # NoTeam
              => TotalSize(teams, waitlist, Lower(user_team_assignments[k])) > 0)
       => C15_OneActorPerTeam']_vars

\* C16: the pass of the sweep that finds the event past its expiry tears the
\* whole event down in that step: afterwards there is no active event and
\* roster, waitlist and the assignment mapping are empty.
C16_ExpiryTearsDown ==
    [][last'.op = "expire"
       => (/\ ~active'
           /\ teams' = <<>>
           /\ waitlist' = <<>>
           /\ user_team_assignments' = NoAssignments)]_vars

\* what the expiry step does do: the event with roster and waitlist is gone
C16_ExpiryRemovesEvent ==
    [][last'.op = "expire"
       => (~active' /\ teams' = <<>> /\ waitlist' = <<>> /\ slots_used' = 0)]_vars

\* C17: there is one event at most; a create request while an event is active
\* is rejected and leaves the event's name, roster, waitlist, max_slots,
\* slots_used and max_team_size as they are.
C17_CreateWhileActiveRejected ==
    [][(last'.op = "create" /\ active)
       => (/\ last'.status = "duplicate_event"
           /\ UNCHANGED <<active, event_name, teams, waitlist, max_slots,
                          slots_used, max_team_size>>)]_vars

\* an event under another name was requested while the active event has teams
C17_Witness ==
    /\ last.op = "create"
    /\ last.status = "duplicate_event"
    /\ active
    /\ last.team # event_name
    /\ Len(teams) > 0

\* set_team_size has reduced a roster entry and waits, at the await before
\* its promoter call, with the capacity it vacated
DecreaseSuspended ==
    /\ last.op = "update"
    /\ last.status = "decreased"
    /\ last.freed > 0
    /\ pending # <<>>

\* C18: set_team_size is atomic with respect to other requests. Between its
\* change of roster and waitlist and the end of its promoter no other request
\* and no sweep changes the store, and its promoter finds free the capacity
\* its own operation vacated.
C18_SetTeamSizeAtomic ==
    [][/\ DecreaseSuspended
          => (\/ last'.op = "promote"
              \/ UNCHANGED <<teams, waitlist, slots_used, max_slots>>)
       /\ last'.op = "promote"
          => last'.freed <= max_slots - slots_used]_vars

\* what holds instead: the promoter that follows the decrease at once, with
\* nothing in between, finds the vacated capacity free
C18_UninterruptedPromoter ==
    [][(DecreaseSuspended /\ last'.op = "promote" /\ slots_used + last.freed <= max_slots)
       => last'.freed <= max_slots - slots_used]_vars

\* C19: the sweep never runs concurrently with an interactive mutation:
\* between its read of the available capacity and the last promotion of that
\* pass no request changes roster, waitlist, slots_used or max_slots. So at
\* every further promotion of a pass the capacity the sweep counted down from
\* its read is the capacity that is free.
C19_SweepNotInterleaved ==
    [][(sweepPc = "loop" /\ last'.op = "sweep" /\ last'.status = "promoted")
       => sweepAvail = max_slots - slots_used]_vars

\* a request changes the store while a pass of the sweep is under way
C19_NoMutationDuringPass ==
    [][sweepPc = "loop"
       => (\/ last'.op = "sweep"
           \/ UNCHANGED <<teams, waitlist, slots_used, max_slots>>)]_vars

\* the last request was a served, mutating set_team_size or cancellation
MutatingRequestServed ==
    /\ last.op \in {"reg", "modal", "admin_edit", "unregister"}
    /\ last.status \in {"cancelled", "increased", "decreased"}

\* C20: an external mutating request (set_team_size, cancel) runs its
\* promoter inside the request and persists the store exactly once, after the
\* nested promotions have settled.
C20_PersistedOnce == MutatingRequestServed => last.saves = 1

\* what holds instead: the store is persisted at least once and at most
\* three times per served mutating request
C20_PersistedAtLeastOnce == MutatingRequestServed => last.saves \in 1 .. 3

\* ------------------------------------------------------ confirmation dialogs

\* BaseView.check_response without the `self.has_responded = True` of
\* bot.py:1299 (faulty variant)
check_response_never_set(v) == [already |-> v.has_responded, view |-> v]

\* BaseView.check_response (bot.py:1281-1300): test and set of has_responded,
\* with no await in between
check_response(v) ==
    [already |-> v.has_responded, view |-> [v EXCEPT !.has_responded = TRUE]]

\* the dialog on screen has reached no end yet; a new one replaces a dialog
\* that was answered or has timed out
NoOpenView == view.kind = "none" \/ view.has_responded \/ view.stopped

\* unregister_command -> handle_team_unregistration: the confirmation dialog
\* is shown (bot.py:375-383)
ShowUnregisterDialog(actor, name) ==
    \E is_admin \in {actor = ORGANIZER} :
        /\ NoOpenView
        /\ UnregisterPrecheck(actor, name, is_admin) = "pass"
        /\ view' = [kind |-> "unregister", team |-> Lower(name), actor |-> actor,
                    is_admin |-> is_admin, has_responded |-> FALSE,
                    stopped |-> FALSE, applied |-> 0]
        /\ last' = MkReq("unregister_dialog", actor, is_admin, Lower(name), 0,
                         "asked", 0, 0)
        /\ UNCHANGED <<active, event_name, teams, waitlist, max_slots, slots_used,
                       max_team_size, user_team_assignments, pending, sweepPc,
                       sweepAvail>>

\* delete_event: the confirmation dialog is shown (bot.py:2132-2147)
ShowDeleteDialog ==
    /\ NoOpenView
    /\ active
    /\ view' = [kind |-> "delete", team |-> NoTeam, actor |-> ORGANIZER,
                is_admin |-> TRUE, has_responded |-> FALSE, stopped |-> FALSE,
                applied |-> 0]
    /\ last' = MkReq("delete_dialog", ORGANIZER, TRUE, NoTeam, 0, "asked", 0, 0)
    /\ UNCHANGED <<active, event_name, teams, waitlist, max_slots, slots_used,
                   max_team_size, user_team_assignments, pending, sweepPc,
                   sweepAvail>>

\* the view answers "Diese Aktion wird bereits verarbeitet..." and returns
AlreadyProcessing(op, v) ==
    /\ view' = v
    /\ last' = MkReq(op, view.actor, view.is_admin, view.team, 0,
                     "already_processing", 0, 0)
    /\ UNCHANGED <<active, event_name, teams, waitlist, max_slots, slots_used,
                   max_team_size, user_team_assignments, pending, sweepPc,
                   sweepAvail>>

\* TeamUnregisterConfirmationView.confirm_callback after check_response:
\* update_team_size(team, 0, is_admin) (bot.py:2182-2216)
ConfirmUnregister(v) ==
    \E st \in {UpdateStatus(view.actor, view.team, 0, view.is_admin)} :
    \E r \in {UpdateResult(view.actor, view.team, 0, view.is_admin)} :
        /\ teams' = r.teams
        /\ waitlist' = r.waitlist
        /\ slots_used' = r.slots_used
        /\ user_team_assignments' =
              UpdateAssignments(view.actor, view.team, 0, view.is_admin)
        /\ view' = [v EXCEPT !.applied = @ + (IF st \in Served THEN 1 ELSE 0)]
        /\ last' = MkReq("confirm", view.actor, view.is_admin, view.team, 0, st,
                         r.freed, SavesOfUpdate(st, Promoted(st, r.slots_used, r.freed)))
        /\ UNCHANGED <<active, event_name, max_slots, max_team_size, pending,
                       sweepPc, sweepAvail>>

\* DeleteConfirmationView.confirm_callback after check_response
\* (bot.py:2336-2363): clears event and assignments when an event exists
ConfirmDelete(v) ==
    IF active
    THEN /\ Cleared
         /\ user_team_assignments' = NoAssignments
         /\ view' = [v EXCEPT !.applied = @ + 1]
         /\ last' = MkReq("confirm", view.actor, TRUE, NoTeam, 0, "deleted", 0, 1)
         /\ UNCHANGED <<pending, sweepPc, sweepAvail>>
    ELSE /\ view' = v
         /\ last' = MkReq("confirm", view.actor, TRUE, NoTeam, 0, "no_event", 0, 0)
         /\ UNCHANGED <<active, event_name, teams, waitlist, max_slots, slots_used,
                        max_team_size, user_team_assignments, pending, sweepPc,
                        sweepAvail>>

\* an activation of the confirm button; ui.View delivers activations only
\* while the view has not timed out (timeout passed at bot.py:1247)
ConfirmActivation ==
    \E cr \in {check_response(view)} :
        /\ view.kind # "none"
        /\ ~view.stopped
        /\ IF cr.already THEN AlreadyProcessing("confirm", cr.view)
           ELSE IF view.kind = "unregister" THEN ConfirmUnregister(cr.view)
           ELSE ConfirmDelete(cr.view)

\* an activation of the cancel button (bot.py:2277-2310)
CancelActivation ==
    \E cr \in {check_response(view)} :
        /\ view.kind # "none"
        /\ ~view.stopped
        /\ IF cr.already THEN AlreadyProcessing("dismiss", cr.view)
           ELSE /\ view' = cr.view
                /\ last' = MkReq("dismiss", view.actor, view.is_admin, view.team, 0,
                                 "dismissed", 0, 0)
                /\ UNCHANGED <<active, event_name, teams, waitlist, max_slots,
                               slots_used, max_team_size, user_team_assignments,
                               pending, sweepPc, sweepAvail>>

\* a timeout handler that leaves the buttons enabled and the view open
\* (faulty variant)
ViewTimeoutStaysOpen ==
    /\ view.kind # "none"
    /\ ~view.stopped
    /\ view' = view
    /\ last' = MkReq("timeout", view.actor, view.is_admin, view.team, 0,
                     "timed_out", 0, 0)
    /\ UNCHANGED <<active, event_name, teams, waitlist, max_slots, slots_used,
                   max_team_size, user_team_assignments, pending, sweepPc,
                   sweepAvail>>

\* the view's timeout elapses: BaseView.on_timeout (bot.py:1252-1274) disables
\* the buttons and edits the message
ViewTimeout ==
    /\ view.kind # "none"
    /\ ~view.stopped
    /\ view' = [view EXCEPT !.stopped = TRUE]
    /\ last' = MkReq("timeout", view.actor, view.is_admin, view.team, 0,
                     "timed_out", 0, 0)
    /\ UNCHANGED <<active, event_name, teams, waitlist, max_slots, slots_used,
                   max_team_size, user_team_assignments, pending, sweepPc,
                   sweepAvail>>

NextDialogs ==
    \/ \E nm \in EventNames : CreateEventRequest(nm)
    \/ \E a \in Actors, t \in {"alpha", "bravo"}, n \in Sizes \ {0} :
          RegisterTeam(a, t, n, FALSE)
    \/ \E a \in Actors, t \in {"alpha", "bravo"} : ShowUnregisterDialog(a, t)
    \/ ShowDeleteDialog
    \/ ConfirmActivation
    \/ CancelActivation
    \/ ViewTimeout

SpecDialogs == Init /\ [][NextDialogs]_vars

\* ---------------------------------------------------------------- claims C21-C30

\* C21: for one confirmation dialog (team cancellation or event deletion) the
\* confirmed mutation is applied at most once, whatever the number and order
\* of confirm and cancel activations; every activation after the first is
\* answered with "already being processed" and changes nothing.
C21_ConfirmAppliedOnce ==
    [][/\ view'.applied <= 1
       /\ (last'.op \in {"confirm", "dismiss"} /\ view.has_responded)
          => (/\ last'.status = "already_processing"
              /\ store' = store
              /\ view'.applied = view.applied)]_vars

\* a second confirm was answered after the first had removed the team
C21_Witness ==
    /\ last.op = "confirm"
    /\ last.status = "already_processing"
    /\ view.kind = "unregister"
    /\ view.applied = 1
    /\ active

\* the step shows a new dialog in place of the one on screen
NewDialogStep == last'.op \in {"unregister_dialog", "delete_dialog"}

Failures == {"none", "dm", "response"}

MkDelivery(team, n, status, freed, fail, promoter_ran, saves) ==
    [op |-> "update_delivery", team |-> team, n |-> n, status |-> status,
     freed |-> freed, fail |-> fail, promoter_ran |-> promoter_ran, saves |-> saves]

\* the handler runs to its end: send_team_dm_notification catches what its
\* delivery raises (bot.py:2461-2469), and so does the cancel branch for its
\* response (bot.py:2634-2653); the responses of the increase and decrease
\* branches (bot.py:2729, 2771, 2863) are awaited outside any try
RunsToEnd(st, fail) == fail # "response" \/ st \notin {"increased", "decreased"}

\* update_team_size run as one handler, one of its deliveries failing
UpdateTeamSizeDelivering(actor, name, n, is_admin, fail) ==
    \E lname \in {Lower(name)} :
    \E st \in {UpdateStatus(actor, lname, n, is_admin)} :
    \E r \in {UpdateResult(actor, lname, n, is_admin)} :
    \E done \in {RunsToEnd(st, fail)} :
    \E promote \in {done /\ st = "decreased" /\ r.freed > 0} :
    \E p \in {IF promote
              THEN process_waitlist_after_change(r.teams, r.waitlist,
                                                 r.slots_used, r.freed)
              ELSE [teams |-> r.teams, waitlist |-> r.waitlist,
                    slots_used |-> r.slots_used]} :
        /\ st \in Served
        /\ fail = "dm" => is_admin
        /\ Len(r.waitlist) <= MaxWaitlist
        /\ teams' = p.teams
        /\ waitlist' = p.waitlist
        /\ slots_used' = p.slots_used
        /\ user_team_assignments' = UpdateAssignments(actor, lname, n, is_admin)
        /\ last' = MkDelivery(lname, n, st, r.freed, fail,
                              promote \/ (st = "cancelled" /\ r.freed > 0),
                              IF done THEN SavesOfUpdate(st, Promoted(st, p.slots_used, r.freed))
                              ELSE 0)
        /\ UNCHANGED <<active, event_name, max_slots, max_team_size, pending,
                       sweepPc, sweepAvail, view>>

NextDelivery ==
    \/ CreateEvent
    \/ \E a \in Actors, t \in {"alpha", "bravo"}, n \in Sizes, f \in Failures :
          UpdateTeamSizeDelivering(a, t, n, a = ORGANIZER, f)
    \/ Close
    \/ OpenRun

SpecDelivery == Init /\ [][NextDelivery]_vars

\* C23: a failure while a notification or the response is delivered never
\* aborts a size change: after such a set_team_size the change of roster and
\* waitlist is in place, the promoter the change called for has run, and the
\* store has been persisted.
C23_DeliveryFailureHarmless ==
    (/\ last.op = "update_delivery"
     /\ last.fail # "none"
     /\ last.status \in {"cancelled", "increased", "decreased"})
    => (/\ last.freed > 0 => last.promoter_ran
        /\ last.saves >= 1)

\* the same for a failing direct message alone, which the code does swallow
C23_DmFailureHarmless ==
    (/\ last.op = "update_delivery"
     /\ last.fail = "dm"
     /\ last.status \in {"cancelled", "increased", "decreased"})
    => (/\ last.freed > 0 => last.promoter_ran
        /\ last.saves >= 1)

\* ------------------------------------------------------- stored encodings
\* The store comes in two shapes.  Legacy: the roster maps a name to a bare
\* integer and a waitlist entry is (name, size).  With ids: the roster maps
\* a name to {"size": n, "id": id} and a waitlist entry is (name, size, id).
\* generate_team_id is imported from utils; the identifier is opaque here.
TeamId(name) == <<"id", name>>

Shapes == {"legacy", "with_id"}

\* the roster of the model as event["teams"] holds it in the given shape
EncodeTeams(shape, ts) ==
    [i \in 1 .. Len(ts) |->
        [name |-> ts[i].name,
         value |-> IF shape = "legacy"
                   THEN [shape |-> "int", size |-> ts[i].size]
                   ELSE [shape |-> "dict", size |-> ts[i].size,
                         id |-> TeamId(ts[i].name)]]]

\* the waitlist of the model as event["waitlist"] holds it in the given shape
EncodeWaitlist(shape, wl) ==
    [i \in 1 .. Len(wl) |->
        IF shape = "legacy"
        THEN <<wl[i].name, wl[i].size>>
        ELSE <<wl[i].name, wl[i].size, TeamId(wl[i].name)>>]

\* waitlist_size of the with-id branch: entries shorter than 3 are skipped
RECURSIVE SumWithIds(_, _)
SumWithIds(ewl, lname) ==
    IF ewl = <<>> THEN 0
    ELSE (IF Len(Head(ewl)) >= 3 /\ Lower(Head(ewl)[1]) = lname
          THEN Head(ewl)[2] ELSE 0) + SumWithIds(Tail(ewl), lname)

\* waitlist_size of the legacy branch: every entry is unpacked into two names
RECURSIVE SumLegacy(_, _)
SumLegacy(ewl, lname) ==
    IF ewl = <<>> THEN 0
    ELSE (IF Lower(Head(ewl)[1]) = lname THEN Head(ewl)[2] ELSE 0)
         + SumLegacy(Tail(ewl), lname)

\* A with-id reader that takes the roster value for the size field: the
\* roster size of a with-id store reads as 0.
get_team_total_size_without_size_field(ets, ewl, team_name) ==
    LET lname == Lower(team_name)
        i == FirstMatch(ets, lname)
        using_team_ids == ets # <<>> /\ ets[1].value.shape = "dict"
        using_waitlist_ids == ewl # <<>> /\ Len(ewl[1]) > 2
        event_size == IF i = 0 \/ using_team_ids THEN 0 ELSE ets[i].value.size
        waitlist_size == IF using_waitlist_ids THEN SumWithIds(ewl, lname)
                         ELSE SumLegacy(ewl, lname)
    IN  [status |-> "ok", event_size |-> event_size, waitlist_size |-> waitlist_size,
         total_size |-> event_size + waitlist_size,
         registered_name |-> IF i = 0 THEN NoTeam ELSE ets[i].name]

\* get_team_total_size on an encoded roster and waitlist.  The shape of the
\* roster is taken from its first value, the shape of the waitlist from the
\* length of its first entry.
get_team_total_size(ets, ewl, team_name) ==
    LET lname == Lower(team_name)
        i == FirstMatch(ets, lname)
        using_team_ids == ets # <<>> /\ ets[1].value.shape = "dict"
        using_waitlist_ids == ewl # <<>> /\ Len(ewl[1]) > 2
        \* data.get on a bare integer / an integer plus a dict
        roster_error == i # 0 /\ (using_team_ids <=> ets[i].value.shape = "int")
        \* `for i, (wl_team, wl_size) in ...` on an entry of three
        waitlist_error == ~using_waitlist_ids /\ \E j \in 1 .. Len(ewl) : Len(ewl[j]) # 2
        event_size == IF i = 0 THEN 0 ELSE ets[i].value.size
        waitlist_size == IF using_waitlist_ids THEN SumWithIds(ewl, lname)
                         ELSE SumLegacy(ewl, lname)
    IN  IF roster_error \/ waitlist_error
        THEN [status |-> "error", event_size |-> 0, waitlist_size |-> 0,
              total_size |-> 0, registered_name |-> NoTeam]
        ELSE [status |-> "ok", event_size |-> event_size, waitlist_size |-> waitlist_size,
              total_size |-> event_size + waitlist_size,
              registered_name |-> IF i = 0 THEN NoTeam ELSE ets[i].name]

\* the rosters and waitlists the function is applied to
ShapeSizes == Sizes \ {0}
Entries == [name : TeamNames, size : ShapeSizes]
Rosters ==
    {<<>>} \cup {<<e>> : e \in Entries}
           \cup {p \in {<<e, f>> : e \in Entries, f \in Entries} : p[1].name # p[2].name}
Waitlists ==
    {<<>>} \cup {<<e>> : e \in Entries} \cup {<<e, f>> : e \in Entries, f \in Entries}

InitShapes ==
    /\ active = TRUE
    /\ event_name = "cup"
    /\ teams \in {ts \in Rosters : SumSizes(ts) <= DEFAULT_MAX_SLOTS}
    /\ waitlist \in Waitlists
    /\ slots_used = SumSizes(teams)
    \* open, or closed by close_command
    /\ max_slots \in {DEFAULT_MAX_SLOTS, slots_used}
    /\ max_team_size = DEFAULT_MAX_TEAM_SIZE
    /\ user_team_assignments = NoAssignments
    /\ pending = <<>>
    /\ sweepPc = "sleep"
    /\ sweepAvail = 0
    /\ last = Mk("init", NoTeam, 0, "ok", 0)
    /\ view = NoView

\* get_team_total_size(event, team_name) with the store in the given shape
TotalSizeQuery(shape, name) ==
    /\ active
    /\ last' = [op |-> "total_size", team |-> name, shape |-> shape,
                result |-> get_team_total_size(EncodeTeams(shape, teams),
                                               EncodeWaitlist(shape, waitlist), name)]
    /\ UNCHANGED <<active, event_name, teams, waitlist, max_slots, slots_used,
                   max_team_size, user_team_assignments, pending, sweepPc,
                   sweepAvail, view>>

NextShapes == \E shape \in Shapes, name \in TeamNames : TotalSizeQuery(shape, name)

SpecShapes == InitShapes /\ [][NextShapes]_vars

\* C24: for every team name, get_team_total_size gives the same roster size,
\* waitlist size, total and registered name on the legacy encoding of a
\* roster and waitlist as on their with-id encoding, and what it gives is
\* the team's first roster entry and the sum of its waitlist entries.
C24_SameInBothShapes ==
    \A name \in TeamNames :
        /\ get_team_total_size(EncodeTeams("legacy", teams),
                               EncodeWaitlist("legacy", waitlist), name)
           = get_team_total_size(EncodeTeams("with_id", teams),
                                 EncodeWaitlist("with_id", waitlist), name)
        /\ last.op = "total_size" /\ last.team = name
           => /\ last.result.status = "ok"
              /\ last.result.event_size = EventSize(teams, Lower(name))
              /\ last.result.waitlist_size = WaitlistSize(waitlist, Lower(name))
              /\ last.result.total_size = TotalSize(teams, waitlist, Lower(name))

\* the function was applied to a with-id store in which the team holds a
\* roster entry under another spelling and two waitlist entries
C24_Witness ==
    /\ last.op = "total_size" /\ last.shape = "with_id" /\ last.team = "alpha"
    /\ last.result.registered_name = "Alpha"
    /\ last.result.event_size = 2
    /\ last.result.waitlist_size = 6
    /\ Len(waitlist) = 2

\* ------------------------------------------ the handlers on an encoded store
\* `for i, (wl_team, wl_size) in enumerate(event["waitlist"])` and
\* `team_name, size = event["waitlist"][0]` raise ValueError on an entry that
\* is not a pair
UnpackRaises(ewl) == \E j \in 1 .. Len(ewl) : Len(ewl[j]) # 2
\* `event["slots_used"] -= registered_size` and `event["teams"][name] += n`
\* raise TypeError when the roster value is a dict
ArithmeticRaises(ets, i) == i # 0 /\ ets[i].value.shape = "dict"

\* update_team_size (bot.py:2472) past its early returns on the store in the
\* given shape: the exception it is left with ("none": it runs to its end)
\* and the roster, waitlist, slots_used and assignments it leaves behind.
ShapedUpdate(shape, actor, lname, n, is_admin) ==
    LET ets   == EncodeTeams(shape, teams)
        ewl   == EncodeWaitlist(shape, waitlist)
        g     == get_team_total_size(ets, ewl, lname)
        st    == UpdateStatus(actor, lname, n, is_admin)
        ri    == FirstMatch(teams, lname)
        r     == UpdateResult(actor, lname, n, is_admin)
        p     == IF st = "decreased" /\ r.freed > 0
                 THEN process_waitlist_after_change(r.teams, r.waitlist,
                                                    r.slots_used, r.freed)
                 ELSE [teams |-> r.teams, waitlist |-> r.waitlist,
                       slots_used |-> r.slots_used]
        done  == [raised |-> "none", teams |-> p.teams, waitlist |-> p.waitlist,
                  slots_used |-> p.slots_used,
                  assignments |-> UpdateAssignments(actor, lname, n, is_admin)]
        \* the binding of a new team (bot.py:2568-2572) precedes every branch
        bound == IF g.total_size = 0 /\ n > 0
                 THEN [user_team_assignments EXCEPT ![actor] = lname]
                 ELSE user_team_assignments
        stop(exc, ts) == [raised |-> exc, teams |-> ts, waitlist |-> waitlist,
                          slots_used |-> slots_used, assignments |-> bound]
    IN  CASE st = "cancelled" ->
                \* bot.py:2583-2586: the roster entry is popped, then subtracted
                IF g.event_size > 0 /\ ArithmeticRaises(ets, ri)
                THEN stop("TypeError", RemoveAt(teams, ri))
                \* bot.py:2592
                ELSE IF g.waitlist_size > 0 /\ UnpackRaises(ewl)
                THEN stop("ValueError", teams)
                ELSE done
          [] st = "increased" ->
                \* bot.py:2697
                IF UnpackRaises(ewl) THEN stop("ValueError", teams)
                \* bot.py:2707, bot.py:2751
                ELSE IF ArithmeticRaises(ets, ri) THEN stop("TypeError", teams)
                ELSE done
          [] st = "decreased" ->
                \* bot.py:2813
                IF UnpackRaises(ewl) THEN stop("ValueError", teams)
                ELSE done
          [] OTHER -> done

\* set_team_size or a cancellation on the store as loaded in the given shape
ShapedUpdateTeamSize(shape, actor, name, n, is_admin) ==
    \E lname \in {Lower(name)} :
    \E st \in {UpdateStatus(actor, lname, n, is_admin)} :
    \E w \in {ShapedUpdate(shape, actor, lname, n, is_admin)} :
    \E x \in {ShapedUpdate("legacy", actor, lname, n, is_admin)} :
        /\ last.op = "init"
        /\ st \in Served
        /\ Len(x.waitlist) <= MaxWaitlist
        /\ teams' = w.teams
        /\ waitlist' = w.waitlist
        /\ slots_used' = w.slots_used
        /\ user_team_assignments' = w.assignments
        /\ last' = [op |-> "shaped_update", shape |-> shape, team |-> lname, n |-> n,
                    status |-> st, raised |-> w.raised,
                    legacy |-> <<x.teams, x.waitlist, x.slots_used, x.assignments>>]
        /\ UNCHANGED <<active, event_name, max_slots, max_team_size, pending,
                       sweepPc, sweepAvail, view>>

\* open_command on the store as loaded in the given shape: max_slots is
\* restored and saved, then the promoter is called with the capacity gained
\* (bot.py:4186-4213); the promoter unpacks the head of the waitlist
\* (bot.py:2913)
ShapedOpen(shape) ==
    \E free \in {DEFAULT_MAX_SLOTS - slots_used} :
    \E x \in {process_waitlist_after_change(teams, waitlist, slots_used, free)} :
    \E raises \in {/\ free > 0 /\ waitlist # <<>>
                   /\ UnpackRaises(EncodeWaitlist(shape, waitlist))} :
        /\ last.op = "init"
        /\ active
        /\ max_slots' = DEFAULT_MAX_SLOTS
        /\ teams' = IF raises THEN teams ELSE x.teams
        /\ waitlist' = IF raises THEN waitlist ELSE x.waitlist
        /\ slots_used' = IF raises THEN slots_used ELSE x.slots_used
        /\ last' = [op |-> "shaped_open", shape |-> shape, team |-> NoTeam, n |-> 0,
                    status |-> "opened",
                    raised |-> IF raises THEN "ValueError" ELSE "none",
                    legacy |-> <<x.teams, x.waitlist, x.slots_used, user_team_assignments>>]
        /\ UNCHANGED <<active, event_name, max_team_size, user_team_assignments,
                       pending, sweepPc, sweepAvail, view>>

NextLoaded ==
    \/ \E shape \in Shapes, a \in Actors, t \in {"alpha", "bravo"}, n \in Sizes :
          ShapedUpdateTeamSize(shape, a, t, n, a = ORGANIZER)
    \/ \E shape \in Shapes : ShapedOpen(shape)

\* one request on a store loaded in either shape
SpecLoaded == InitShapes /\ [][NextLoaded]_vars

\* C25: set_team_size, a cancellation and the promoter run to their end on a
\* store loaded in the with-id shape and leave the roster, waitlist,
\* slots_used and assignments that they leave on the same store in the
\* legacy shape.
C25_ShapeIndependent ==
    last.op \in {"shaped_update", "shaped_open"}
    => /\ last.raised = "none"
       /\ <<teams, waitlist, slots_used, user_team_assignments>> = last.legacy

\* the part of an increase that does not fit the roster: delta - min(delta, available)
ToWaitlist(lname, n) ==
    (n - TotalSize(teams, waitlist, lname))
    - Min(n - TotalSize(teams, waitlist, lname), max_slots - slots_used)

\* C26: an increase of T that overflows appends a new waitlist entry for T
\* of size to_waitlist at the tail; the entries the waitlist held before,
\* T's included, keep their size and position.
C26_OverflowAppended ==
    [][(/\ last'.op = "update" /\ last'.status = "increased"
        /\ ToWaitlist(last'.team, last'.n) > 0)
       => (/\ Len(waitlist') = Len(waitlist) + 1
           /\ SubSeq(waitlist', 1, Len(waitlist)) = waitlist
           /\ Lower(waitlist'[Len(waitlist')].name) = last'.team
           /\ waitlist'[Len(waitlist')].size = ToWaitlist(last'.team, last'.n))]_vars

\* the same for a team that has no waitlist entry yet
C26_FirstOverflowAppended ==
    [][(/\ last'.op = "update" /\ last'.status = "increased"
        /\ ToWaitlist(last'.team, last'.n) > 0
        /\ WaitlistSize(waitlist, last'.team) = 0)
       => (/\ Len(waitlist') = Len(waitlist) + 1
           /\ SubSeq(waitlist', 1, Len(waitlist)) = waitlist
           /\ Lower(waitlist'[Len(waitlist')].name) = last'.team
           /\ waitlist'[Len(waitlist')].size = ToWaitlist(last'.team, last'.n))]_vars

\* a set_team_size that was served as a decrease
DecreaseStep == last'.op = "update" /\ last'.status = "decreased"
\* its reduction and the part of it that T's waitlist entries hold
Reduction == TotalSize(teams, waitlist, last'.team) - last'.n
WaitlistReduction == Min(WaitlistSize(waitlist, last'.team), Reduction)

\* C27: a decrease of T takes min(waitlist_size(T), reduction) members from
\* T's waitlist entries and the remainder from T's roster entry; when the
\* waitlist entries cover the reduction, T's roster size and slots_used stay
\* as they are.
C27_WaitlistDrainedFirst ==
    [][DecreaseStep
       => (/\ WaitlistSize(waitlist', last'.team)
                = WaitlistSize(waitlist, last'.team) - WaitlistReduction
           /\ EventSize(teams', last'.team)
                = EventSize(teams, last'.team) - (Reduction - WaitlistReduction)
           /\ Reduction <= WaitlistSize(waitlist, last'.team)
              => (/\ EventSize(teams', last'.team) = EventSize(teams, last'.team)
                  /\ slots_used' = slots_used))]_vars

\* the same for a team with at most one waitlist entry and one roster entry
C27_SingleEntryDrainedFirst ==
    [][(/\ DecreaseStep
        /\ Len(Matching(waitlist, last'.team)) <= 1
        /\ Len(Matching(teams, last'.team)) <= 1)
       => (/\ WaitlistSize(waitlist', last'.team)
                = WaitlistSize(waitlist, last'.team) - WaitlistReduction
           /\ EventSize(teams', last'.team)
                = EventSize(teams, last'.team) - (Reduction - WaitlistReduction)
           /\ Reduction <= WaitlistSize(waitlist, last'.team)
              => (/\ EventSize(teams', last'.team) = EventSize(teams, last'.team)
                  /\ slots_used' = slots_used))]_vars

\* the part of a decrease that T's roster entry gives up
EventReduction == Reduction - WaitlistReduction
\* members on the roster under a name matching lname, whatever its spelling
RosterMembers(ts, lname) == SumSizes(Matching(ts, lname))

\* C28: a decrease that takes event_reduction > 0 members from T's roster
\* entry calls the promoter with freed = event_reduction, and none of the
\* members the promoter admits is T's; a decrease with event_reduction = 0
\* calls no promoter: the roster and slots_used stay as they are.
C28_PromoterAfterDecrease ==
    [][DecreaseStep
       => (/\ last'.freed = EventReduction
           /\ EventReduction > 0
              => (/\ RosterMembers(teams', last'.team)
                       = RosterMembers(teams, last'.team) - EventReduction
                  /\ slots_used' - (slots_used - EventReduction)
                       = SumSizes(NotMatching(teams', last'.team))
                         - SumSizes(NotMatching(teams, last'.team)))
           /\ EventReduction = 0
              => (teams' = teams /\ slots_used' = slots_used))]_vars

\* the same for a team with at most one waitlist entry
C28_SingleEntryPromoterAfterDecrease ==
    [][(DecreaseStep /\ Len(Matching(waitlist, last'.team)) <= 1)
       => (/\ last'.freed = EventReduction
           /\ EventReduction > 0
              => (/\ RosterMembers(teams', last'.team)
                       = RosterMembers(teams, last'.team) - EventReduction
                  /\ slots_used' - (slots_used - EventReduction)
                       = SumSizes(NotMatching(teams', last'.team))
                         - SumSizes(NotMatching(teams, last'.team)))
           /\ EventReduction = 0
              => (teams' = teams /\ slots_used' = slots_used))]_vars

\* ------------------------------------------------ open_command and its awaits
\* open_command awaits its feedback and its log entry (bot.py:4196-4209)
\* between the reset of max_slots and its promoter call; the requests that
\* are served while it is suspended run to their end.
\* A store that is overbooked is not explored further.
NextOpening ==
    \/ ~Overbooked /\ CreateEvent
    \/ \E t \in {"alpha", "bravo"}, n \in Sizes :
          ~Overbooked /\ UpdateTeamSizeRun(ORGANIZER, t, n, TRUE)
    \/ ~Overbooked /\ Close
    \/ ~Overbooked /\ Open
    \/ \E i \in 1 .. Len(pending) : ~Overbooked /\ ResumePromote(i)

SpecOpening == Init /\ [][NextOpening]_vars

\* open_command has completed: with the promoter call it resumed for, or at
\* once when no capacity became available
OpenCompletes ==
    \/ last'.op = "promote"
    \/ last'.op = "open" /\ last'.freed <= 0

\* C29: when open completes, max_slots is the configured default and the
\* promoter has used all capacity that became available: the waitlist is
\* empty or slots_used equals max_slots.
C29_OpenFillsCapacity ==
    [][/\ last'.op = "open" => max_slots' = DEFAULT_MAX_SLOTS
       /\ OpenCompletes => (waitlist' = <<>> \/ slots_used' = max_slots')]_vars

\* the same with every handler run to its end before the next one starts
C29_UninterruptedOpenFillsCapacity ==
    [][last'.op = "open"
       => (/\ max_slots' = DEFAULT_MAX_SLOTS
           /\ (waitlist' = <<>> \/ slots_used' = max_slots'))]_vars

\* the event was closed below the configured capacity and nothing has been
\* freed or opened since
NoCapacity == active /\ max_slots = slots_used /\ max_slots < DEFAULT_MAX_SLOTS
\* a step that enlarges a team or registers a new one, and the members it adds
GrowthStep ==
    \/ last'.op = "update" /\ last'.status = "increased"
    \/ last'.op = "admin_add" /\ last'.status = "added"
Delta ==
    IF last'.op = "update" THEN last'.n - TotalSize(teams, waitlist, last'.team)
    ELSE last'.n

\* C30: close sets max_slots to slots_used and leaves the roster, the
\* waitlist, slots_used, max_team_size and the assignments as they are;
\* while no roster capacity is available, an increase or a new registration
\* adds no member to the roster and its whole delta to the team's waitlist
\* entries.
C30_CloseFreezesRoster ==
    [][/\ last'.op = "close"
          => (/\ max_slots' = slots_used
              /\ <<active, event_name, teams, waitlist, slots_used, max_team_size,
                   user_team_assignments>>'
                 = <<active, event_name, teams, waitlist, slots_used, max_team_size,
                     user_team_assignments>>)
       /\ (NoCapacity /\ GrowthStep)
          => (/\ slots_used' = slots_used
              /\ SumSizes(teams') = SumSizes(teams)
              /\ WaitlistSize(waitlist', last'.team)
                   = WaitlistSize(waitlist, last'.team) + Delta)]_vars

\* the same where the team has at most one waitlist entry
C30_SingleEntryCloseFreezesRoster ==
    [][/\ last'.op = "close"
          => (/\ max_slots' = slots_used
              /\ <<active, event_name, teams, waitlist, slots_used, max_team_size,
                   user_team_assignments>>'
                 = <<active, event_name, teams, waitlist, slots_used, max_team_size,
                     user_team_assignments>>)
       /\ (NoCapacity /\ GrowthStep /\ Len(Matching(waitlist, last'.team)) <= 1)
          => (/\ slots_used' = slots_used
              /\ SumSizes(teams') = SumSizes(teams)
              /\ WaitlistSize(waitlist', last'.team)
                   = WaitlistSize(waitlist, last'.team) + Delta)]_vars

\* ------------------------------------------------------- claims C31 - C38
\* C31: every actor-team assignment names a team whose total size in the
\* active event is positive; the operation that takes a team to total 0 or
\* tears the event down removes the assignments to it.
C31_AssignedTeamsPresent ==
    \A k \in AssignKeys :
        user_team_assignments[k] # NoTeam
        => (/\ active
            /\ TotalSize(teams, waitlist, Lower(user_team_assignments[k])) > 0)

\* no two roster entries name the same team under case-insensitive comparison
OneEntryPerTeam(ts) ==
    \A i, j \in 1 .. Len(ts) : i # j => Lower(ts[i].name) # Lower(ts[j].name)

\* C32: the roster holds at most one entry per team name compared
\* case-insensitively, and admin-add-team adds a team only if no roster or
\* waitlist entry matches its name case-insensitively.
C32_CaseInsensitiveIdentity ==
    [][/\ OneEntryPerTeam(teams')
       /\ (last'.op = "admin_add" /\ last'.status = "added")
          => (/\ FirstMatch(teams, last'.team) = 0
              /\ FirstMatch(waitlist, last'.team) = 0)]_vars

\* ----------------------------------------------- the shape the handlers write
\* create_event_internal starts the event with an empty dict and an empty
\* list (bot.py:3548-3549).  Every write of the handlers in effect stores a
\* bare integer under the team's name (bot.py:2710, 2715, 2750, 2755, 2834,
\* 2919, 2927, 3061, 3087, 3387) or a pair (bot.py:2762, 2766, 2824, 2925,
\* 3035, 3090, 3113), whatever the shape of the entries already there.
WrittenShape == "legacy"
StoredTeams == EncodeTeams(WrittenShape, teams)
StoredWaitlist == EncodeWaitlist(WrittenShape, waitlist)

\* the ids that the stored entries of a team carry
IdsOf(lname) ==
    {StoredTeams[i].value.id :
        i \in {k \in 1 .. Len(StoredTeams) :
                 /\ Lower(StoredTeams[k].name) = lname
                 /\ StoredTeams[k].value.shape = "dict"}}
    \cup {StoredWaitlist[j][3] :
            j \in {k \in 1 .. Len(StoredWaitlist) :
                     /\ Lower(StoredWaitlist[k][1]) = lname
                     /\ Len(StoredWaitlist[k]) >= 3}}

\* C33: every roster entry and every waitlist entry of the event carries a
\* team id, also the first entries of an empty event, and the entries of one
\* team carry one and the same id.
C33_EntriesCarryTeamId ==
    active
    => (/\ \A i \in 1 .. Len(StoredTeams) : StoredTeams[i].value.shape = "dict"
        /\ \A j \in 1 .. Len(StoredWaitlist) : Len(StoredWaitlist[j]) >= 3
        /\ \A t \in TeamNames : Cardinality(IdsOf(Lower(t))) <= 1)

\* the step is a request to cancel a team: size 0 through /reg, the
\* registration modal or /admin_team_edit, or /unregister
CancellationStep ==
    last'.op \in {"reg", "modal", "admin_edit", "unregister"} /\ last'.n = 0
\* no roster entry and no waitlist entry matches the name
Absent(lname) == FirstMatch(teams, lname) = 0 /\ FirstMatch(waitlist, lname) = 0

\* C34: a cancellation of a team that has no roster entry and no waitlist
\* entry when it is applied is answered with an error (the claim:
\* TeamNotFound; here any rejection counts), never as a cancellation, and
\* changes nothing.
C34_AbsentTeamNotCancelled ==
    [][(CancellationStep /\ active /\ Absent(last'.team))
       => (last'.status \in Errors /\ store' = store)]_vars

\* the same for /unregister alone
C34_UnregisterAbsentRejected ==
    [][(last'.op = "unregister" /\ active /\ Absent(last'.team))
       => (last'.status \in Errors /\ store' = store)]_vars

\* ------------------------------------------------ the sweep left on its own
\* Requests are served until the background task runs its first pass; from
\* then on no request arrives and the task runs a pass every
\* WAITLIST_CHECK_INTERVAL seconds (bot.py:3338-3340).
Quiet == last.op = "sweep"

NextQuiet ==
    \/ ~Quiet /\ CreateEvent
    \/ \E t \in {"alpha", "bravo"}, n \in Sizes :
          ~Quiet /\ UpdateTeamSizeRun(ORGANIZER, t, n, TRUE)
    \/ \E t \in {"alpha", "bravo"}, n \in Sizes, f \in BOOLEAN :
          ~Quiet /\ AdminAddTeam(t, n, NoUser, f)
    \/ ~Quiet /\ Close
    \/ ~Quiet /\ OpenRun
    \/ SweepRun

SpecQuiet == Init /\ [][NextQuiet]_vars /\ WF_vars(SweepRun)

\* C35: once only the background sweep runs, free roster capacity and a
\* non-empty waitlist do not stay together: the waitlist becomes empty or
\* slots_used reaches max_slots.
C35_SweepDrainsWaitlist ==
    (Quiet /\ active /\ slots_used < max_slots /\ waitlist # <<>>)
    ~> (waitlist = <<>> \/ slots_used = max_slots)

\* the operations that C36 names: set_team_size, admin-add, open, close, the
\* promoter and the sweep
SizePreservingStep ==
    last'.op \in {"update", "admin_add", "open", "close", "promote", "sweep"}

\* C36: an operation changes the total size (roster + waitlist) of no team
\* other than the one it targets; a promotion moves members from a team's
\* waitlist entries to that team's roster entry.
C36_OtherTeamsKeepTotal ==
    [][SizePreservingStep
       => \A u \in {"alpha", "bravo"} :
             u # last'.team
             => TotalSize(teams', waitlist', u) = TotalSize(teams, waitlist, u)]_vars

\* the same while the roster holds one entry per team
C36_OtherTeamsKeepTotalOneEntry ==
    [][(SizePreservingStep /\ OneEntryPerTeam(teams) /\ OneEntryPerTeam(teams'))
       => \A u \in {"alpha", "bravo"} :
             u # last'.team
             => TotalSize(teams', waitlist', u) = TotalSize(teams, waitlist, u)]_vars

\* the names of the waitlist entries, in queue order
RECURSIVE Names(_)
Names(wl) == IF wl = <<>> THEN <<>> ELSE <<Head(wl).name>> \o Names(Tail(wl))

\* s can be obtained from t by deleting elements
RECURSIVE IsSubseq(_, _)
IsSubseq(s, t) ==
    IF s = <<>> THEN TRUE
    ELSE IF t = <<>> THEN FALSE
    ELSE IF Head(s) = Head(t) THEN IsSubseq(Tail(s), Tail(t))
    ELSE IsSubseq(s, Tail(t))

\* w2 is w after entries were removed or resized in place and at most one
\* entry was appended at the tail
OrderKept(w, w2) ==
    \/ IsSubseq(Names(w2), Names(w))
    \/ w2 # <<>> /\ IsSubseq(Names(SubSeq(w2, 1, Len(w2) - 1)), Names(w))

\* w2 is w after leading entries were removed and the new head was shrunk
\* or left as it is
HeadOnly(w, w2) ==
    \E k \in 0 .. Len(w) :
        /\ Len(w2) = Len(w) - k
        /\ \A i \in 2 .. Len(w2) : w2[i] = w[k + i]
        /\ w2 # <<>> => (/\ w2[1].name = w[k + 1].name
                         /\ w2[1].size <= w[k + 1].size
                         /\ w2[1].size > 0)

\* C37: the waitlist entries that survive an operation keep their relative
\* order.  An increase or an admin-add appends at the tail or resizes an
\* entry of the target team in place; a decrease or a cancellation touches
\* entries of the target team only, before its promoter call; the promoter
\* and the sweep remove or shrink the head only.
C37_WaitlistOrderKept ==
    [][/\ OrderKept(waitlist, waitlist')
       /\ last'.op \in {"open", "promote", "sweep", "close"}
          => HeadOnly(waitlist, waitlist')
       /\ (last'.op = "update" /\ last'.status \in {"cancelled", "decreased"})
          => HeadOnly(NotMatching(waitlist, last'.team),
                      NotMatching(waitlist', last'.team))
       /\ (\/ last'.op = "update" /\ last'.status \in {"increased", "unchanged"}
           \/ last'.op = "admin_add")
          => (/\ NotMatching(waitlist', last'.team) = NotMatching(waitlist, last'.team)
              /\ \/ Names(waitlist') = Names(waitlist)
                 \/ (/\ Len(waitlist') = Len(waitlist) + 1
                     /\ SubSeq(waitlist', 1, Len(waitlist)) = waitlist
                     /\ Lower(waitlist'[Len(waitlist')].name) = last'.team))]_vars

\* the sweep has taken the head of the waitlist and another team still waits
C37_Witness ==
    /\ last.op = "sweep" /\ last.status = "promoted"
    /\ waitlist # <<>>
    /\ slots_used <= max_slots

\* ------------------------------------------------------- the team-size cap
\* AdminActionView.open_reg_callback (bot.py:1936-1973): the button of the
\* admin panel sets the cap to EXPANDED_MAX_TEAM_SIZE whatever it was; every
\* panel that is opened has the button
OpenRegButton ==
    /\ active
    /\ max_team_size' = EXPANDED_MAX_TEAM_SIZE
    /\ last' = Mk("open_reg_button", NoTeam, 0, "raised", 0)
    /\ UNCHANGED <<active, event_name, teams, waitlist, max_slots, slots_used,
                   user_team_assignments, pending, sweepPc, sweepAvail, view>>

NextTeamSize ==
    \/ CreateEvent
    \/ DeleteEvent
    \/ \E a \in Actors, t \in {"alpha", "bravo"}, n \in Sizes :
          UpdateTeamSizeRun(a, t, n, a = ORGANIZER)
    \/ OpenRegistration
    \/ OpenRegButton

SpecTeamSize == Init /\ [][NextTeamSize]_vars

\* C38: while an event lives max_team_size never decreases, and the
\* open_reg command and the open-registration button of the admin panel
\* leave the roster, the waitlist, slots_used and max_slots as they are.
C38_TeamSizeCapGrows ==
    [][/\ (active /\ last'.op \notin {"create", "delete", "expire"})
          => max_team_size' >= max_team_size
       /\ last'.op \in {"open_reg", "open_reg_button"}
          => UNCHANGED <<teams, waitlist, slots_used, max_slots>>]_vars

\* the same for the open_reg command alone
C38_CommandRaisesCap ==
    [][last'.op = "open_reg"
       => (/\ max_team_size' >= max_team_size
           /\ UNCHANGED <<teams, waitlist, slots_used, max_slots>>)]_vars

====
